---- MODULE Spec2Model ----
(***************************************************************************)
(* Model of the PGHL schedule scraper (joerawr/pghl-mcp).                   *)
(*                                                                         *)
(* Texts are TLA+ strings; the JavaScript string operations the program    *)
(* uses (toLowerCase, trim, includes, split, regular expressions) are      *)
(* operators over them, computed character by character.                   *)
(***************************************************************************)
EXTENDS Integers, Sequences, FiniteSets, TLC

(***************************************************************************)
(* Bounds of the model.                                                    *)
(***************************************************************************)
\* raw <option> elements a select control holds on the modelled page
MaxOptions == 2
\* options of the list handed to findOptionByLabel in SpecFind
MaxFindOptions == 2
\* body rows of a table on the modelled page
MaxRows == 2
\* characters of a label in SpecFind
MaxLabelLen == 2
\* entries of the calendar payload, the listed summaries apart
MaxEvents == 2

(***************************************************************************)
(* JavaScript strings.                                                     *)
(***************************************************************************)
Char(s, i) == SubSeq(s, i, i)

Slice(s, from, to) == SubSeq(s, from, to)

UpperLetters == "ABCDEFGHIJKLMNOPQRSTUVWXYZ"

LowerLetters == "abcdefghijklmnopqrstuvwxyz"

Digits == "0123456789"

CharIn(c, alphabet) == \E i \in 1..Len(alphabet) : Char(alphabet, i) = c

IndexIn(c, alphabet) == CHOOSE i \in 1..Len(alphabet) : Char(alphabet, i) = c

IsDigit(c) == CharIn(c, Digits)

IsUpper(c) == CharIn(c, UpperLetters)

IsLetter(c) == CharIn(c, UpperLetters) \/ CharIn(c, LowerLetters)

\* [A-Za-z0-9]
IsAlnum(c) == IsLetter(c) \/ IsDigit(c)

\* \s, and the characters String.prototype.trim strips
IsSpace(c) == c \in {" ", "\t", "\n"}

LowerChar(c) == IF IsUpper(c) THEN Char(LowerLetters, IndexIn(c, UpperLetters)) ELSE c

UpperChar(c) ==
    IF CharIn(c, LowerLetters) THEN Char(UpperLetters, IndexIn(c, LowerLetters)) ELSE c

RECURSIVE ToLowerCase(_)
ToLowerCase(s) ==
    IF s = "" THEN "" ELSE LowerChar(Char(s, 1)) \o ToLowerCase(Slice(s, 2, Len(s)))

RECURSIVE ToUpperCase(_)
ToUpperCase(s) ==
    IF s = "" THEN "" ELSE UpperChar(Char(s, 1)) \o ToUpperCase(Slice(s, 2, Len(s)))

RECURSIVE TrimStart(_)
TrimStart(s) ==
    IF s # "" /\ IsSpace(Char(s, 1)) THEN TrimStart(Slice(s, 2, Len(s))) ELSE s

RECURSIVE TrimEnd(_)
TrimEnd(s) ==
    IF s # "" /\ IsSpace(Char(s, Len(s))) THEN TrimEnd(Slice(s, 1, Len(s) - 1)) ELSE s

Trim(s) == TrimEnd(TrimStart(s))

\* s.startsWith(t, at - 1): t occurs in s at position at (1-based)
OccursAt(s, t, at) == at + Len(t) - 1 <= Len(s) /\ Slice(s, at, at + Len(t) - 1) = t

Includes(s, t) == \E at \in 1..(Len(s) + 1) : OccursAt(s, t, at)

\* s.indexOf(t) + 1: the first position of t in s, 0 when there is none
IndexOf(s, t) ==
    IF Includes(s, t)
    THEN CHOOSE at \in 1..(Len(s) + 1) :
            /\ OccursAt(s, t, at)
            /\ \A b \in 1..(at - 1) : ~OccursAt(s, t, b)
    ELSE 0

\* Array.prototype.findIndex + 1 (Array.prototype.find), given for each
\* element whether it passes the test: the first index that does, 0 for none
FirstIndex(passes) ==
    IF \E i \in 1..Len(passes) : passes[i]
    THEN CHOOSE i \in 1..Len(passes) : passes[i] /\ \A j \in 1..(i - 1) : ~passes[j]
    ELSE 0

\* sequences over S of length 0..n
SeqsUpTo(S, n) == UNION {[1..k -> S] : k \in 0..n}

\* the elements of list at the indices in S, in the order of the list
Pick(list, S) ==
    [k \in 1..Cardinality(S) |->
        list[CHOOSE i \in S : Cardinality({j \in S : j < i}) = k - 1]]

\* the subsequences of list that have at most n elements
Subsequences(list, n) ==
    { Pick(list, S) : S \in { T \in SUBSET (1..Len(list)) : Cardinality(T) <= n } }

(***************************************************************************)
(* discovery.ts: findOptionByLabel.  Options are records                   *)
(* [value, label, selected]; the result is the index of the option found   *)
(* (Array.prototype.find returns that element), 0 for undefined.           *)
(***************************************************************************)
SelectOption(v, l, s) == [value |-> v, label |-> l, selected |-> s]

\* findOptionByLabel without its exact-match pass
FirstPartialOnly(options, label) ==
    LET normalizedLabel == Trim(ToLowerCase(label))
        Partial(opt) == Includes(ToLowerCase(opt.label), normalizedLabel)
    IN  FirstIndex([i \in 1..Len(options) |-> Partial(options[i])])

findOptionByLabel(options, label) ==
    LET normalizedLabel == Trim(ToLowerCase(label))
        Exact(opt) == ToLowerCase(opt.label) = normalizedLabel
        Partial(opt) == Includes(ToLowerCase(opt.label), normalizedLabel)
        exactMatch == FirstIndex([i \in 1..Len(options) |-> Exact(options[i])])
    IN  IF exactMatch # 0 THEN exactMatch
        ELSE FirstIndex([i \in 1..Len(options) |-> Partial(options[i])])


(***************************************************************************)
(* JavaScript numbers and their texts.                                     *)
(***************************************************************************)
DigitValue(c) == IndexIn(c, Digits) - 1

RECURSIVE NatToString(_)
NatToString(n) ==
    IF n < 10 THEN Char(Digits, n + 1)
    ELSE NatToString(n \div 10) \o Char(Digits, (n % 10) + 1)

\* Number.prototype.toString of an integer
IntToString(n) == IF n < 0 THEN "-" \o NatToString(0 - n) ELSE NatToString(n)

\* the value of a text of digits ("" is 0)
RECURSIVE DigitsValue(_)
DigitsValue(s) ==
    IF s = "" THEN 0
    ELSE 10 * DigitsValue(Slice(s, 1, Len(s) - 1)) + DigitValue(Char(s, Len(s)))

\* the longest prefix of s made of digits, at most max characters long
RECURSIVE DigitPrefix(_, _)
DigitPrefix(s, max) ==
    IF max > 0 /\ s # "" /\ IsDigit(Char(s, 1))
    THEN Char(s, 1) \o DigitPrefix(Slice(s, 2, Len(s)), max - 1)
    ELSE ""

AllDigits(s) == \A i \in 1..Len(s) : IsDigit(Char(s, i))

\* parseInt(s, 10): leading whitespace, an optional sign, then digits;
\* [nan |-> TRUE] when no digit follows
ParseInt(s) ==
    LET t == TrimStart(s)
        signed == t # "" /\ Char(t, 1) \in {"-", "+"}
        body == IF signed THEN Slice(t, 2, Len(t)) ELSE t
        ds == DigitPrefix(body, Len(body))
    IN  IF ds = "" THEN [nan |-> TRUE, value |-> 0]
        ELSE [nan |-> FALSE,
              value |-> IF signed /\ Char(t, 1) = "-" THEN 0 - DigitsValue(ds)
                        ELSE DigitsValue(ds)]

\* String.prototype.padStart(n, '0')
RECURSIVE PadStart(_, _)
PadStart(s, n) == IF Len(s) >= n THEN s ELSE PadStart("0" \o s, n)

\* s.split(sep)[0] and the rest after the first separator
BeforeFirst(s, sep) == IF Includes(s, sep) THEN Slice(s, 1, IndexOf(s, sep) - 1) ELSE s

AfterFirst(s, sep) ==
    IF Includes(s, sep) THEN Slice(s, IndexOf(s, sep) + Len(sep), Len(s)) ELSE ""

\* a function result: a value, or a thrown error
Ok(v) == [ok |-> TRUE, value |-> v]

Thrown(e) == [ok |-> FALSE, value |-> e]

(***************************************************************************)
(* date-parser.ts: parsePGHLTime                                           *)
(***************************************************************************)
\* s.replace(/ [A-Z]{2,3}$/i, '')
StripTimezone(s) ==
    LET n == Len(s)
        Letters(from) == \A i \in from..n : IsLetter(Char(s, i))
    IN  IF n >= 4 /\ Char(s, n - 3) = " " /\ Letters(n - 2) THEN Slice(s, 1, n - 4)
        ELSE IF n >= 3 /\ Char(s, n - 2) = " " /\ Letters(n - 1) THEN Slice(s, 1, n - 3)
        ELSE s

\* s.replace(/:\d{2}$/, '')
StripSeconds(s) ==
    LET n == Len(s)
    IN  IF n >= 3 /\ Char(s, n - 2) = ":" /\ IsDigit(Char(s, n - 1)) /\ IsDigit(Char(s, n))
        THEN Slice(s, 1, n - 3)
        ELSE s

\* the position of the first match of /(AM|PM)/i in s, 0 when there is none
AmPmAt(s) ==
    LET Hit(at) == at + 1 <= Len(s) /\ ToUpperCase(Slice(s, at, at + 1)) \in {"AM", "PM"}
    IN  IF \E at \in 1..Len(s) : Hit(at)
        THEN CHOOSE at \in 1..Len(s) : Hit(at) /\ \A b \in 1..(at - 1) : ~Hit(b)
        ELSE 0

\* s without the two characters at position at (s itself when at is 0)
CutMarker(s, at) == IF at = 0 THEN s ELSE Slice(s, 1, at - 1) \o Slice(s, at + 2, Len(s))

\* s.replace(/(AM|PM)/i, '')
RemoveAmPm(s) == CutMarker(s, AmPmAt(s))

\* s.split(':')[1], "" when the split has one part or the part is empty
SecondPart(s) == BeforeFirst(AfterFirst(s, ":"), ":")

\* /^\d{1,2}:\d{2}$/.test(s)
IsHourMinute(s) ==
    LET n == Len(s)
    IN  /\ n \in {4, 5}
        /\ Char(s, n - 2) = ":"
        /\ AllDigits(Slice(s, 1, n - 3))
        /\ AllDigits(Slice(s, n - 1, n))

\* the 12-hour branch after parseInt: `hour` adjusted by the marker, NaN
\* staying NaN, and `parts[1] || '00'`
TwelveHourTime(marker, parsed, min) ==
    LET hour == IF marker = "PM" /\ parsed.value # 12 THEN parsed.value + 12
                ELSE IF marker = "AM" /\ parsed.value = 12 THEN 0
                ELSE parsed.value
    IN  PadStart(IF parsed.nan THEN "NaN" ELSE IntToString(hour), 2)
            \o ":" \o PadStart(IF min = "" THEN "00" ELSE min, 2)

\* the 12-hour branch: cleaned without its marker, split at ':'
TwelveHourBranch(marker, noMarker) ==
    TwelveHourTime(marker, ParseInt(BeforeFirst(noMarker, ":")), SecondPart(noMarker))

\* the branches of parsePGHLTime, given cleaned and the position of the
\* marker in timeStr
TimeBranches(timeStr, cleaned, at) ==
    IF at # 0
    THEN Ok(TwelveHourBranch(ToUpperCase(Slice(timeStr, at, at + 1)), Trim(RemoveAmPm(cleaned))))
    ELSE IF IsHourMinute(cleaned)
    THEN Ok(PadStart(BeforeFirst(cleaned, ":"), 2) \o ":" \o AfterFirst(cleaned, ":"))
    ELSE Thrown("Unable to parse time")

parsePGHLTime(timeStr) ==
    TimeBranches(timeStr, StripSeconds(StripTimezone(Trim(timeStr))), AmPmAt(timeStr))

(***************************************************************************)
(* date-fns parse and format, as parsePGHLDate uses them.  A step of the   *)
(* parse is [ok, value, rest]: whether the token matched, what it read,    *)
(* and the text left.                                                      *)
(***************************************************************************)
Step(okay, vs, r) == [ok |-> okay, values |-> vs, rest |-> r]

NoMatch == Step(FALSE, <<>>, "")

\* the parse before its first token
Start(s) == Step(TRUE, <<>>, s)

\* the step after a token that read v and consumed n characters
Read(st, v, n) == Step(TRUE, Append(st.values, v), Slice(st.rest, n + 1, Len(st.rest)))

\* s starts with one of the words (case-insensitively), each n characters long
StartsWithWord(s, words, n) == Len(s) >= n /\ ToLowerCase(Slice(s, 1, n)) \in words

\* token EEE: an abbreviated, else a short, else a narrow weekday name.  The
\* weekday read is never applied: the setters of `EEE` and `dd` share one
\* priority and only the one of `dd` runs.
ParseWeekday(st) ==
    IF ~st.ok THEN NoMatch
    ELSE IF StartsWithWord(st.rest, {"sun", "mon", "tue", "wed", "thu", "fri", "sat"}, 3)
    THEN Read(st, 0, 3)
    ELSE IF StartsWithWord(st.rest, {"su", "mo", "tu", "we", "th", "fr", "sa"}, 2)
    THEN Read(st, 0, 2)
    ELSE IF StartsWithWord(st.rest, {"s", "m", "t", "w", "f"}, 1)
    THEN Read(st, 0, 1)
    ELSE NoMatch

MonthAbbreviations ==
    << "jan", "feb", "mar", "apr", "may", "jun", "jul", "aug", "sep", "oct", "nov", "dec" >>

\* the narrow month letters; a letter stands for the first month it names
NarrowMonths == << "j", "f", "m", "a", "m", "j", "j", "a", "s", "o", "n", "d" >>

\* the first month whose name in names is word, 0 when there is none
MonthNamed(names, word) ==
    IF \E m \in 1..12 : names[m] = word
    THEN CHOOSE m \in 1..12 : names[m] = word /\ \A k \in 1..(m - 1) : names[k] # word
    ELSE 0

\* token MMM: an abbreviated, else a narrow month name; it reads 1..12
ParseMonthName(st) ==
    IF ~st.ok THEN NoMatch
    ELSE IF Len(st.rest) >= 3
              /\ MonthNamed(MonthAbbreviations, ToLowerCase(Slice(st.rest, 1, 3))) # 0
    THEN Read(st, MonthNamed(MonthAbbreviations, ToLowerCase(Slice(st.rest, 1, 3))), 3)
    ELSE IF Len(st.rest) >= 1 /\ MonthNamed(NarrowMonths, ToLowerCase(Char(st.rest, 1))) # 0
    THEN Read(st, MonthNamed(NarrowMonths, ToLowerCase(Char(st.rest, 1))), 1)
    ELSE NoMatch

\* the step after reading the digits ds, "" being no match
ReadDigits(st, ds) == IF ds = "" THEN NoMatch ELSE Read(st, DigitsValue(ds), Len(ds))

\* tokens MM, dd, yyyy: parseNDigits(n), the regular expression /^\d{1,n}/
ParseNDigits(st, n) == IF ~st.ok THEN NoMatch ELSE ReadDigits(st, DigitPrefix(st.rest, n))

\* the digits /^(1[0-2]|0?\d)/ matches at the start of s
NumericMonthDigits(s) ==
    IF Len(s) >= 2 /\ Char(s, 1) = "1" /\ Char(s, 2) \in {"0", "1", "2"} THEN Slice(s, 1, 2)
    ELSE IF Len(s) >= 2 /\ Char(s, 1) = "0" /\ IsDigit(Char(s, 2)) THEN Slice(s, 1, 2)
    ELSE IF Len(s) >= 1 /\ IsDigit(Char(s, 1)) THEN Char(s, 1)
    ELSE ""

\* token M
ParseNumericMonth(st) == IF ~st.ok THEN NoMatch ELSE ReadDigits(st, NumericMonthDigits(st.rest))

\* the digits /^(3[0-1]|[0-2]?\d)/ matches at the start of s
NumericDayDigits(s) ==
    IF Len(s) >= 2 /\ Char(s, 1) = "3" /\ Char(s, 2) \in {"0", "1"} THEN Slice(s, 1, 2)
    ELSE IF Len(s) >= 2 /\ Char(s, 1) \in {"0", "1", "2"} /\ IsDigit(Char(s, 2))
    THEN Slice(s, 1, 2)
    ELSE IF Len(s) >= 1 /\ IsDigit(Char(s, 1)) THEN Char(s, 1)
    ELSE ""

\* token d
ParseNumericDay(st) == IF ~st.ok THEN NoMatch ELSE ReadDigits(st, NumericDayDigits(st.rest))

\* a literal character of the format string
ParseLiteral(st, lit) ==
    IF st.ok /\ OccursAt(st.rest, lit, 1) THEN Step(TRUE, st.values, Slice(st.rest, 2, Len(st.rest)))
    ELSE NoMatch

\* what is left after the last token may only be whitespace
OnlyWhitespace(s) == \A i \in 1..Len(s) : IsSpace(Char(s, i))

IsLeapYear(y) == y % 400 = 0 \/ (y % 4 = 0 /\ y % 100 # 0)

DaysInMonth(y, m) ==
    IF m = 2 THEN (IF IsLeapYear(y) THEN 29 ELSE 28)
    ELSE IF m \in {4, 6, 9, 11} THEN 30 ELSE 31

\* a parsed date, or Invalid Date
ValidDate(y, m, d) == [valid |-> TRUE, y |-> y, m |-> m, d |-> d]

InvalidDate == [valid |-> FALSE, y |-> 0, m |-> 0, d |-> 0]

\* the setters' validations: the month, then the day within that month
CheckedDate(y, m, d) ==
    IF m \in 1..12 /\ d >= 1 /\ d <= DaysInMonth(y, m) THEN ValidDate(y, m, d)
    ELSE InvalidDate

\* the end of a parse with 'EEE MMM dd': the values read are weekday, month, day
WeekdayMonthDayOf(st, year) ==
    IF st.ok /\ OnlyWhitespace(st.rest) THEN CheckedDate(year, st.values[2], st.values[3])
    ELSE InvalidDate

\* parse(dateStr, 'EEE MMM dd', new Date(year, 0, 1))
ParseWeekdayMonthDay(dateStr, year) ==
    WeekdayMonthDayOf(
        ParseNDigits(ParseLiteral(ParseMonthName(ParseLiteral(ParseWeekday(Start(dateStr)),
                                                              " ")), " "), 2),
        year)

\* the end of a parse with month, day, year tokens; the year must be positive
MonthDayYearOf(st) ==
    IF st.ok /\ OnlyWhitespace(st.rest) /\ st.values[3] > 0
    THEN CheckedDate(st.values[3], st.values[1], st.values[2])
    ELSE InvalidDate

\* parse(dateStr, 'MM/dd/yyyy', new Date()); yyyy reads one to four digits
ParseSlashDate(dateStr) ==
    MonthDayYearOf(
        ParseNDigits(ParseLiteral(ParseNDigits(ParseLiteral(ParseNDigits(Start(dateStr), 2),
                                                            "/"), 2), "/"), 4))

\* parse(dateStr, 'M/d/yyyy', new Date())
ParseShortSlashDate(dateStr) ==
    MonthDayYearOf(
        ParseNDigits(ParseLiteral(ParseNumericDay(ParseLiteral(ParseNumericMonth(Start(dateStr)),
                                                               "/")), "/"), 4))

\* the calendar day before a date
PreviousDay(date) ==
    IF date.d > 1 THEN ValidDate(date.y, date.m, date.d - 1)
    ELSE IF date.m > 1 THEN ValidDate(date.y, date.m - 1, DaysInMonth(date.y, date.m - 1))
    ELSE ValidDate(date.y - 1, 12, 31)

\* format(date, 'yyyy-MM-dd')
FormatDate(date) ==
    PadStart(IntToString(date.y), 4) \o "-" \o PadStart(IntToString(date.m), 2)
        \o "-" \o PadStart(IntToString(date.d), 2)

\* /^\d{4}-\d{2}-\d{2}$/.test(s)
IsIsoShape(s) ==
    /\ Len(s) = 10
    /\ Char(s, 5) = "-" /\ Char(s, 8) = "-"
    /\ AllDigits(Slice(s, 1, 4)) /\ AllDigits(Slice(s, 6, 7)) /\ AllDigits(Slice(s, 9, 10))

(***************************************************************************)
(* date-parser.ts: parsePGHLDate.  eastOfPacific is the environment: the   *)
(* process runs in a time zone whose local midnight falls on the previous  *)
(* Pacific calendar day (UTC, as on the serverless deployment); format 1   *)
(* reads the local midnight it parsed back in America/Los_Angeles.         *)
(***************************************************************************)
\* new Date(year, 0, 1).getFullYear(): years 0..99 mean 1900..1999
ReferenceYear(year) == IF year >= 0 /\ year <= 99 THEN 1900 + year ELSE year

\* format 1: the year from the season text, the parse, and the reading in
\* America/Los_Angeles; NaN as the year makes the reference date invalid
FirstFormat(dateStr, year) ==
    IF year.nan THEN InvalidDate ELSE ParseWeekdayMonthDay(dateStr, ReferenceYear(year.value))

\* the four formats in the order parsePGHLDate tries them: each try block
\* returns when its date is valid (format throws on Invalid Date and the
\* catch goes on to the next format)
DateBranches(dateStr, first, second, third, tzEast) ==
    IF first.valid THEN Ok(FormatDate(IF tzEast THEN PreviousDay(first) ELSE first))
    ELSE IF second.valid THEN Ok(FormatDate(second))
    ELSE IF third.valid THEN Ok(FormatDate(third))
    ELSE IF IsIsoShape(dateStr) THEN Ok(dateStr)
    ELSE Thrown("Unable to parse date")

parsePGHLDate(dateStr, seasonText, tzEast) ==
    DateBranches(dateStr, FirstFormat(dateStr, ParseInt(BeforeFirst(seasonText, "-"))),
                 ParseSlashDate(dateStr), ParseShortSlashDate(dateStr), tzEast)

(***************************************************************************)
(* date-parser.ts: normalizeTeamName and teamNamesMatch                    *)
(***************************************************************************)
\* \w
IsWord(c) == IsAlnum(c) \/ c = "_"

\* s.replace(/[^\w\s]/g, '')
RECURSIVE RemovePunctuation(_)
RemovePunctuation(s) ==
    IF s = "" THEN ""
    ELSE (IF IsWord(Char(s, 1)) \/ IsSpace(Char(s, 1)) THEN Char(s, 1) ELSE "")
             \o RemovePunctuation(Slice(s, 2, Len(s)))

\* s.replace(/\s+/g, ' ')
RECURSIVE NormalizeSpaces(_)
NormalizeSpaces(s) ==
    IF s = "" THEN ""
    ELSE IF IsSpace(Char(s, 1)) THEN " " \o NormalizeSpaces(TrimStart(s))
    ELSE Char(s, 1) \o NormalizeSpaces(Slice(s, 2, Len(s)))

normalizeTeamName(name) == Trim(NormalizeSpaces(RemovePunctuation(ToLowerCase(name))))

\* teamNamesMatch without its partial-match branch
ExactNamesOnly(nameGiven, nameKnown) ==
    normalizeTeamName(nameGiven) = normalizeTeamName(nameKnown)

\* teamNamesMatch(input, canonical)
teamNamesMatch(nameGiven, nameKnown) ==
    IF normalizeTeamName(nameGiven) = normalizeTeamName(nameKnown) THEN TRUE
    ELSE IF Includes(normalizeTeamName(nameKnown), normalizeTeamName(nameGiven)) THEN TRUE
    ELSE FALSE

(***************************************************************************)
(* schedule.ts: the short-code pattern, extractScheduleTable,              *)
(* cleanTeamName and parseScheduleTable.                                   *)
(***************************************************************************)
\* the end of the run of characters of the class that starts at position
\* from of s: from - 1 when the run is empty
RunEnd(s, from, class) ==
    IF from > Len(s) THEN from - 1
    ELSE CHOOSE e \in (from - 1)..Len(s) :
            /\ \A i \in from..e : CharIn(Char(s, i), class)
            /\ (e = Len(s) \/ ~CharIn(Char(s, e + 1), class))

\* the characters \s matches, among those of the modelled texts
Whitespace == " \t\n"

\* /^(.*?\d+u\s+[A]+)([A-Za-z0-9]+)$/ tried with `.*?` taking the first skip
\* characters: the end of group 1 when the rest matches, 0 when it does not.
\* \d+, \s+ and [A]+ are greedy; [A]+ gives back one A when nothing follows it.
ShortCodeGroupEnd(text, skip) ==
    LET n == Len(text)
        digitsEnd == RunEnd(text, skip + 1, Digits)
        spacesEnd == RunEnd(text, digitsEnd + 2, Whitespace)
        asEnd == RunEnd(text, spacesEnd + 1, "A")
        tail == Slice(text, asEnd + 1, n)
    IN  IF /\ \A i \in 1..skip : Char(text, i) # "\n"
           /\ digitsEnd >= skip + 1
           /\ digitsEnd + 1 <= n /\ Char(text, digitsEnd + 1) = "u"
           /\ spacesEnd >= digitsEnd + 2
           /\ asEnd >= spacesEnd + 1
        THEN IF tail # "" /\ \A i \in 1..Len(tail) : IsAlnum(Char(tail, i)) THEN asEnd
             ELSE IF tail = "" /\ asEnd >= spacesEnd + 2 THEN asEnd - 1
             ELSE 0
        ELSE 0

\* text.replace(/^(.*?\d+u\s+[A]+)([A-Za-z0-9]+)$/, '$1'): the lazy `.*?`
\* takes the shortest skip for which the pattern matches
StripShortCode(text) ==
    LET Matches(skip) == ShortCodeGroupEnd(text, skip) # 0
    IN  IF \E skip \in 0..Len(text) : Matches(skip)
        THEN LET first == CHOOSE skip \in 0..Len(text) :
                              Matches(skip) /\ \A b \in 0..(skip - 1) : ~Matches(b)
             IN  Slice(text, 1, ShortCodeGroupEnd(text, first))
        ELSE text

\* cleanTeamName
cleanTeamName(rawText) ==
    LET text == Trim(rawText)
        first == IF Includes(text, " vs ") THEN Trim(BeforeFirst(text, " vs ")) ELSE text
    IN  Trim(StripShortCode(first))

\* A <table> of the page: head is the text of its `thead th` cells, body
\* the text of the `td` cells of each `tbody tr`.
Table(head, body) == [head |-> head, body |-> body]

\* Array.prototype.join(' ')
RECURSIVE JoinWithSpace(_)
JoinWithSpace(cells) ==
    IF Len(cells) = 0 THEN ""
    ELSE IF Len(cells) = 1 THEN cells[1]
    ELSE cells[1] \o " " \o JoinWithSpace(Tail(cells))

\* the header test of extractScheduleTable
IsScheduleHeader(head) ==
    LET headerText == JoinWithSpace([i \in 1..Len(head) |-> ToLowerCase(Trim(head[i]))])
    IN  Includes(headerText, "date")
            /\ (Includes(headerText, "home") \/ Includes(headerText, "team"))

\* extractScheduleTable's page.evaluate: the rows of the first table whose
\* header qualifies (its header row, then its body rows that have cells, every
\* body cell trimmed and stripped of a short code), [] when no table does
extractScheduleTable(pageTables) ==
    LET Qualifies(t) == IsScheduleHeader(t.head)
        at == FirstIndex([i \in 1..Len(pageTables) |-> Qualifies(pageTables[i])])
    IN  IF at = 0 THEN <<>>
        ELSE LET t == pageTables[at]
                 header == IF Len(t.head) > 0
                           THEN << [i \in 1..Len(t.head) |-> Trim(t.head[i])] >>
                           ELSE <<>>
                 HasCells(row) == Len(row) > 0
                 rows == SelectSeq(t.body, HasCells)
             IN  header \o [r \in 1..Len(rows) |->
                              [c \in 1..Len(rows[r]) |-> StripShortCode(Trim(rows[r][c]))]]

\* headers.findIndex(h => h.includes(a) || h.includes(b) || ...) + 1
ColumnIndex(headers, words) ==
    LET Has(h) == \E w \in words : Includes(h, w)
    IN  FirstIndex([i \in 1..Len(headers) |-> Has(headers[i])])

\* the column indices parseScheduleTable resolves (0 is -1, not found)
Columns(tableRows) ==
    LET headers == [i \in 1..Len(tableRows[1]) |-> ToLowerCase(tableRows[1][i])]
    IN  [date   |-> ColumnIndex(headers, {"date"}),
         time   |-> ColumnIndex(headers, {"time"}),
         home   |-> ColumnIndex(headers, {"home"}),
         away   |-> ColumnIndex(headers, {"away", "visitor"}),
         venue  |-> ColumnIndex(headers, {"venue", "location", "rink"}),
         status |-> ColumnIndex(headers, {"status", "result"})]

\* `row[idx] || ''`
CellAt(row, idx) == IF idx >= 1 /\ idx <= Len(row) THEN row[idx] ELSE ""

Game(date, time, home, away, venue, div, rink, status) ==
    [date |-> date, time |-> time, home |-> home, away |-> away, venue |-> venue,
     division |-> div, rink |-> rink, status |-> status]

\* `venue.includes(' - ') ? venue.split(' - ')[0].trim() : venue`
VenueName(venue) == IF Includes(venue, " - ") THEN Trim(BeforeFirst(venue, " - ")) ELSE venue

\* `parts.slice(1).join(' - ').trim()`, "" when the property is not set
RinkName(venue) == IF Includes(venue, " - ") THEN Trim(AfterFirst(venue, " - ")) ELSE ""

\* What the body of parseScheduleTable's row loop does with one row:
\* "skipped" (one of the two `continue`s), "failed" (parsePGHLDate or
\* parsePGHLTime threw into the catch) or "game" with the game pushed.
RowOutcome(kind, pushed) == [kind |-> kind, games |-> pushed]

\* the end of the try block: the game built from the parsed date and time
\* is pushed, unless one of the two parsers threw
PushGame(date, time, home, away, venue, div, status) ==
    IF ~date.ok \/ ~time.ok THEN RowOutcome("failed", <<>>)
    ELSE RowOutcome("game",
                    << Game(date.value, time.value, home, away, VenueName(venue), div,
                            RinkName(venue), status) >>)

\* the row loop without the header test and without the parsers: the texts
\* of the cells are pushed as they were read
EmitRowAsRead(dateStr, timeStr, home, away, venue, status, div, seasonText, tzEast) ==
    IF dateStr = "" \/ home = "" \/ away = "" THEN RowOutcome("skipped", <<>>)
    ELSE PushGame(Ok(dateStr), Ok(timeStr), home, away, venue, div, status)

\* the two `continue`s, then the parsing of the date and of the time
\* (`timeStr ? parsePGHLTime(timeStr) : ''`)
EmitRow(dateStr, timeStr, home, away, venue, status, div, seasonText, tzEast) ==
    IF dateStr = "" \/ home = "" \/ away = "" THEN RowOutcome("skipped", <<>>)
    ELSE IF ToLowerCase(home) = "home" \/ ToLowerCase(dateStr) = "date"
    THEN RowOutcome("skipped", <<>>)
    ELSE PushGame(parsePGHLDate(dateStr, seasonText, tzEast),
                  IF timeStr # "" THEN parsePGHLTime(timeStr) ELSE Ok(""),
                  home, away, venue, div, status)

\* the body of the row loop: the cells read by column index (`row[idx] || ''`,
\* '' for a column that was not found), the team cells cleaned
ParseRow(row, cols, div, seasonText, tzEast) ==
    EmitRow(CellAt(row, cols.date), CellAt(row, cols.time),
            cleanTeamName(CellAt(row, cols.home)), cleanTeamName(CellAt(row, cols.away)),
            CellAt(row, cols.venue), CellAt(row, cols.status), div, seasonText, tzEast)

\* parseScheduleTable before its row loop: "empty" (fewer than two rows,
\* returns []), "unrecognized" (a required column is missing, throws) or
\* "rows" (the loop runs)
ShapeOf(cols) ==
    IF cols.date = 0 \/ cols.home = 0 \/ cols.away = 0 THEN "unrecognized" ELSE "rows"

TableShape(tableRows) == IF Len(tableRows) < 2 THEN "empty" ELSE ShapeOf(Columns(tableRows))

(***************************************************************************)
(* ical-scraper.ts: what node-ical hands over, and the Intl formatting of  *)
(* an event's start in America/Los_Angeles.  A start is an instant, held   *)
(* by its UTC fields; an event without DTSTART has no valid start.         *)
(***************************************************************************)
Event(type, summary, location, start) ==
    [type |-> type, summary |-> summary, location |-> location, start |-> start]

UtcTime(y, m, d, h, mi) == [valid |-> TRUE, y |-> y, m |-> m, d |-> d, h |-> h, mi |-> mi]

\* `event.start` undefined: new Date(undefined) is Invalid Date
NoStart == [valid |-> FALSE, y |-> 0, m |-> 0, d |-> 0, h |-> 0, mi |-> 0]

\* the day of the week of a date, 0 being Sunday
DayOfWeek(y, m, d) ==
    LET shift == << 0, 3, 2, 5, 0, 3, 5, 1, 4, 6, 2, 4 >>
        yy == IF m < 3 THEN y - 1 ELSE y
    IN  (yy + (yy \div 4) - (yy \div 100) + (yy \div 400) + shift[m] + d) % 7

\* the Sunday among the seven days of month m that start at day from
SundayFrom(y, m, from) == CHOOSE d \in from..(from + 6) : DayOfWeek(y, m, d) = 0

\* month, day and hour as one number, ordered as the instants of one year
HourOfYear(m, d, h) == (m * 100 + d) * 100 + h

\* America/Los_Angeles keeps daylight time from 10:00 UTC of the second
\* Sunday of March to 09:00 UTC of the first Sunday of November
InDaylightTime(t) ==
    /\ HourOfYear(t.m, t.d, t.h) >= HourOfYear(3, SundayFrom(t.y, 3, 8), 10)
    /\ HourOfYear(t.m, t.d, t.h) < HourOfYear(11, SundayFrom(t.y, 11, 1), 9)

\* the wall-clock fields of the instant t, off hours west of UTC
WestOfUtc(t, off) ==
    IF t.h >= off THEN [date |-> ValidDate(t.y, t.m, t.d), h |-> t.h - off, mi |-> t.mi]
    ELSE [date |-> PreviousDay(t), h |-> t.h + 24 - off, mi |-> t.mi]

\* timeZone: 'America/Los_Angeles'
InPacificTime(t) == WestOfUtc(t, IF InDaylightTime(t) THEN 7 ELSE 8)

\* the en-CA date of a wall-clock time: year, 2-digit month, 2-digit day
CanadianDate(local) ==
    IntToString(local.date.y) \o "-" \o PadStart(IntToString(local.date.m), 2)
        \o "-" \o PadStart(IntToString(local.date.d), 2)

\* the en-US time of a wall-clock time with hour: 'numeric', minute:
\* '2-digit', hour12: true.  The separator before the day period is a space
\* (U+0020 or, with newer ICU data, U+202F).
AmericanTime(local) ==
    IntToString(IF local.h % 12 = 0 THEN 12 ELSE local.h % 12) \o ":"
        \o PadStart(IntToString(local.mi), 2) \o " "
        \o (IF local.h < 12 THEN "AM" ELSE "PM")

\* formatDate(event.start); Intl.DateTimeFormat.format throws a RangeError
\* on Invalid Date
formatDate(date) ==
    IF date.valid THEN Ok(CanadianDate(InPacificTime(date)))
    ELSE Thrown("RangeError: Invalid time value")

\* formatTime(event.start)
formatTime(date) ==
    IF date.valid THEN Ok(AmericanTime(InPacificTime(date)))
    ELSE Thrown("RangeError: Invalid time value")

(***************************************************************************)
(* ical-scraper.ts: parseICalEvent                                         *)
(***************************************************************************)
\* `[a, b] = text.split(sep).map(s => s.trim())`: the first two parts
FirstTwoParts(text, sep) ==
    << Trim(BeforeFirst(text, sep)), Trim(BeforeFirst(AfterFirst(text, sep), sep)) >>

Teams(away, home, gameType) == [away |-> away, home |-> home, gameType |-> gameType]

\* the teams of FirstTwoParts, tagged
TaggedTeams(parts, gameType) == Teams(parts[1], parts[2], gameType)

\* parseICalEvent without its ' vs ' branch
ParseSummaryAtSignOnly(summary) ==
    IF Includes(summary, " @ ") THEN TaggedTeams(FirstTwoParts(summary, " @ "), "away")
    ELSE Teams(Trim(summary), Trim(summary), "neutral")

\* lines 97-111: awayTeam, homeTeam and gameType from the summary
ParseSummary(summary) ==
    IF Includes(summary, " @ ") THEN TaggedTeams(FirstTwoParts(summary, " @ "), "away")
    ELSE IF Includes(summary, " vs ") THEN TaggedTeams(FirstTwoParts(summary, " vs "), "home")
    ELSE Teams(Trim(summary), Trim(summary), "neutral")

\* lines 115-120: facility and rink from the location
Facility(location) ==
    IF Includes(location, " / ") THEN FirstTwoParts(location, " / ")[1] ELSE location

Rink(location) ==
    IF Includes(location, " / ") THEN FirstTwoParts(location, " / ")[2] ELSE ""

\* /(\d+u\s+A{1,3})/ tried at position from of text: the end of the match,
\* 0 when there is none.  \d+ and \s+ take their whole runs, A{1,3} at most
\* three of the run of A.
DivisionEndAt(text, from, digitsEnd, spacesEnd, asEnd) ==
    IF /\ digitsEnd >= from
       /\ digitsEnd + 1 <= Len(text) /\ Char(text, digitsEnd + 1) = "u"
       /\ spacesEnd >= digitsEnd + 2
       /\ asEnd >= spacesEnd + 1
    THEN IF asEnd > spacesEnd + 3 THEN spacesEnd + 3 ELSE asEnd
    ELSE 0

DivisionEndFrom(text, from, digitsEnd) ==
    DivisionEndAt(text, from, digitsEnd, RunEnd(text, digitsEnd + 2, Whitespace),
                  RunEnd(text, RunEnd(text, digitsEnd + 2, Whitespace) + 1, "A"))

DivisionEnd(text, from) == DivisionEndFrom(text, from, RunEnd(text, from, Digits))

\* `text.match(/(\d+u\s+A{1,3})/)`: group 1 of the leftmost match, '' for null
DivisionOf(text) ==
    LET at == FirstIndex([i \in 1..Len(text) |-> DivisionEnd(text, i) # 0])
    IN  IF at = 0 THEN "" ELSE Slice(text, at, DivisionEnd(text, at))

\* the Game of the feed: no status, `rink || undefined` and `gameType ||
\* undefined` ('' being undefined)
FeedGame(date, time, teams, location) ==
    [date |-> date, time |-> time, home |-> teams.home, away |-> teams.away,
     venue |-> Facility(location),
     division |-> DivisionOf(IF teams.away # "" THEN teams.away ELSE teams.home),
     rink |-> Rink(location), gameType |-> teams.gameType]

\* the object literal of lines 128-137, formatDate evaluated before formatTime
BuildFeedGame(date, time, teams, location) ==
    IF ~date.ok THEN date
    ELSE IF ~time.ok THEN time
    ELSE Ok(FeedGame(date.value, time.value, teams, location))

\* parseICalEvent(event); `event.summary || ''` and `event.location || ''`
parseICalEvent(event) ==
    BuildFeedGame(formatDate(event.start), formatTime(event.start),
                  ParseSummary(event.summary), event.location)

\* the collation rank of the characters of a date text
DateCharacters == "-0123456789"

\* a.localeCompare(b) for two date texts: negative, zero or positive
RECURSIVE LocaleCompare(_, _)
LocaleCompare(a, b) ==
    IF a = "" /\ b = "" THEN 0
    ELSE IF a = "" THEN -1
    ELSE IF b = "" THEN 1
    ELSE IF Char(a, 1) = Char(b, 1) THEN LocaleCompare(Slice(a, 2, Len(a)), Slice(b, 2, Len(b)))
    ELSE IF IndexIn(Char(a, 1), DateCharacters) < IndexIn(Char(b, 1), DateCharacters) THEN -1
    ELSE 1

\* the game g put into the sorted list after every game that does not
\* compare greater than it
InsertByDate(sorted, g) ==
    LET at == FirstIndex([i \in 1..Len(sorted) |-> LocaleCompare(sorted[i].date, g.date) > 0])
    IN  IF at = 0 THEN Append(sorted, g)
        ELSE SubSeq(sorted, 1, at - 1) \o <<g>> \o SubSeq(sorted, at, Len(sorted))

\* fetchScheduleFromICal without its sort
KeepFeedOrder(gs) == gs

\* games.sort((a, b) => a.date.localeCompare(b.date)): Array.prototype.sort
\* is stable
RECURSIVE SortByDate(_)
SortByDate(gs) ==
    IF gs = <<>> THEN <<>>
    ELSE InsertByDate(SortByDate(SubSeq(gs, 1, Len(gs) - 1)), gs[Len(gs)])

(***************************************************************************)
(* State.                                                                  *)
(***************************************************************************)
VARIABLES
    op,             \* the operation running: "discover", "scrape", "extract", "find"
    pc,             \* the position of the running operation
    seasonLabel,    \* discover's seasonLabel; "" is the absent (falsy) argument
    divisionLabel,  \* discover's divisionLabel; "" is the absent argument
    teamId,         \* scrapeSchedule's teamId; "" is null
    season,         \* scrapeSchedule's season string, used to parse dates
    division,       \* scrapeSchedule's division string, copied into each Game
    eastOfPacific,  \* the process's time zone is east of America/Los_Angeles
    launches,       \* puppeteer.launch calls that returned a browser
    closeCalls,     \* closeBrowser calls
    gotoCount,      \* page.goto calls
    pagesOpen,      \* pages (tabs) of the browser that are open
    proc,           \* the browser process: "none", "running", "closed", "killed"
    procKilled,     \* ChildProcess.killed of the browser process
    closeOutcome,   \* browser.close() raced with the 3 s timer: "none" before
    cand,           \* index of the candidate selector the current loop is at
    seasons,        \* the season options extracted
    divisions,      \* the division options extracted
    teams,          \* the team options extracted
    seasonValue,    \* the resolved season value; "" is undefined
    divisionValue,  \* the resolved division value; "" is undefined
    selectTried,    \* per role: page.select was called on some candidate
    selectDone,     \* per role: a selectDropdownOption call completed
    completion,     \* how the try block ended: "none", "return", "throw"
    err,            \* the error thrown; "" is none
    result,         \* <<r>> with r the ScheduleOptions returned, <<>> before
    tables,         \* the <table> elements of the page at extraction
    tableData,      \* extractScheduleTable's rows
    rowIdx,         \* parseScheduleTable's position in dataRows
    games,          \* the games parsed so far, and the Game[] returned
    found,          \* findOptionByLabel's result in SpecFind (index, 0 undefined)
    timeStr,        \* parsePGHLTime's argument
    dateStr,        \* parsePGHLDate's first argument
    input,          \* teamNamesMatch's input
    canonical,      \* teamNamesMatch's canonical
    returned,       \* <<v>> with v what the function called returned, <<>> before
    response,       \* <<r>> with r the Response fetch resolved with, <<>> before
    feedParsed,     \* response.text() was read and handed to parseICS
    events,         \* Object.entries of what parseICS returned, in order
    eventIdx,       \* the events fetchScheduleFromICal's loop has gone through
    tool,           \* the name of the tool called; "" when no tool is called
    args,           \* the arguments the tool is called with
    payload,        \* <<p>> with p the payload returned to the caller, <<>> before
    escaped,        \* an error left the handler and reached its caller
    control,        \* <<c>> with c what the page held at the candidate selector
                    \* a lookup tried last, <<>> before any lookup
    fetchCount,     \* fetch calls
    order,          \* the column order the table is parsed in once more
    cell            \* the text of a team cell of the page

vars == <<op, pc, seasonLabel, divisionLabel, teamId, season, division,
          eastOfPacific, launches,
          closeCalls, gotoCount, pagesOpen, proc, procKilled, closeOutcome, cand,
          seasons, divisions, teams, seasonValue, divisionValue, selectTried,
          selectDone, completion, err, result, tables, tableData, rowIdx, games,
          found, timeStr, dateStr, input, canonical, returned, response, feedParsed,
          events, eventIdx, tool, args, payload, escaped, control, fetchCount,
          order, cell>>

inputVars == <<op, seasonLabel, divisionLabel, teamId, season, division, eastOfPacific>>

browserVars == <<launches, closeCalls, pagesOpen, proc, procKilled, closeOutcome>>

discoverVars == <<seasons, divisions, teams, seasonValue, divisionValue, result>>

selectVars == <<selectTried, selectDone>>

tableVars == <<tables, tableData, rowIdx, games>>

argumentVars == <<timeStr, dateStr, input, canonical, order, cell>>

parserVars == <<argumentVars, returned>>

feedVars == <<response, feedParsed, events, eventIdx>>

toolVars == <<tool, args, payload, escaped>>

Roles == {"season", "division", "team"}

(***************************************************************************)
(* navigation.ts: the candidate selectors of each control.                 *)
(***************************************************************************)
seasonSelectors ==
    << "select[ng-model*=\"season\"]", "select[name=\"season\"]", "select#season",
       ".season-select select", "select[ng-model*=\"Season\"]" >>

seasonSelectSelectors ==
    << "select[ng-model*=\"season\"]", "select[name=\"season\"]", "select#season" >>

divisionSelectors ==
    << "select[ng-model*=\"division\"]", "select[name=\"division\"]", "select#division",
       ".division-select select", "select[ng-model*=\"Division\"]" >>

divisionSelectSelectors ==
    << "select[ng-model*=\"division\"]", "select[name=\"division\"]", "select#division" >>

teamSelectors ==
    << "select[ng-model*=\"team\"]", "select[name=\"team\"]", "select#team",
       ".team-select select", "select[ng-model*=\"Team\"]" >>

teamSelectSelectors ==
    << "select[ng-model*=\"team\"]", "select[name=\"team\"]", "select#team" >>

(***************************************************************************)
(* The page: the <option> elements a control may hold, as                  *)
(* [value, text, selected] with text the element's textContent.            *)
(***************************************************************************)
RawOption(v, t, s) == [value |-> v, text |-> t, selected |-> s]

\* the season control in full, in page order; a page holds a subsequence
RawSeasonOptions ==
    << RawOption("", "Select Season", TRUE),
       RawOption("9486", " 2025-26 AA ", FALSE),
       RawOption("9487", "2025-26", FALSE) >>

RawDivisionOptions ==
    << RawOption("", "All Divisions", TRUE),
       RawOption("42897", "12u AA", FALSE),
       RawOption("42898", "12u A", FALSE) >>

RawTeamOptions ==
    << RawOption("", "All Teams", TRUE),
       RawOption("586889", "Storm 12u AA", FALSE),
       RawOption("586890", "  ", FALSE) >>

SeasonLabels == {"", "2025-26", " AA", "2019-20"}

DivisionLabels == {"", "12U a", "19u"}

\* extractSelectOptions without the filter: placeholders are kept
ExtractAllOptions(raw) ==
    [i \in 1..Len(raw) |-> SelectOption(raw[i].value, Trim(raw[i].text), raw[i].selected)]

\* navigation.ts extractSelectOptions, after the selector was found: the
\* options read by $$eval (label is the trimmed textContent), placeholders
\* filtered out
extractSelectOptions(raw) ==
    LET options == [i \in 1..Len(raw) |->
                      SelectOption(raw[i].value, Trim(raw[i].text), raw[i].selected)]
        Valid(opt) == opt.value # "" /\ opt.label # ""
    IN  SelectSeq(options, Valid)

\* what the page holds at a candidate selector: nothing that
\* extractSelectOptions can read (waitForSelector timed out or $$eval failed,
\* ScrapingError is thrown), or a control with its <option> elements
Missing == [exists |-> FALSE, options |-> <<>>]

Present(raw) == [exists |-> TRUE, options |-> raw]

Controls(rawAll) == {Missing} \cup { Present(raw) : raw \in Subsequences(rawAll, MaxOptions) }

\* seasons.forEach(s => s.selected = s.value === value)
MarkSelected(options, value) ==
    [i \in 1..Len(options) |->
        SelectOption(options[i].value, options[i].label, options[i].value = value)]

(***************************************************************************)
(* try/catch/finally of getScheduleOptions and scrapeSchedule: a throw     *)
(* inside the try block is logged, rethrown, and the finally block runs.   *)
(***************************************************************************)
\* extractGames and findOptionByLabel run outside any try block of their own.
InTryBlock == op \in {"discover", "scrape"}

\* a throw that leaves the operation at once, the finally block not run
ThrowSkippingFinally(e) ==
    /\ completion' = "throw"
    /\ err' = e
    /\ pc' = "thrown"

Throw(e) ==
    /\ completion' = "throw"
    /\ err' = e
    /\ pc' = IF InTryBlock THEN "finally" ELSE "thrown"

Return ==
    /\ completion' = "return"
    /\ err' = err
    /\ pc' = IF InTryBlock THEN "finally" ELSE "returned"

(***************************************************************************)
(* browser.ts                                                              *)
(***************************************************************************)
\* launchBrowser: puppeteer.launch starts the browser process (with its
\* initial blank page), or fails and the error is rethrown outside the try
LaunchBrowser ==
    /\ pc = "launch"
    /\ \/ /\ launches' = launches + 1
          /\ proc' = "running"
          /\ pagesOpen' = 1
          /\ pc' = "createPage"
          /\ UNCHANGED <<err, completion>>
       \/ /\ err' = "Failed to launch browser"
          /\ completion' = "throw"
          /\ pc' = "thrown"
          /\ UNCHANGED <<launches, proc, pagesOpen>>
    /\ UNCHANGED <<toolVars, control, fetchCount, inputVars, parserVars, feedVars, closeCalls, procKilled, closeOutcome, gotoCount, cand,
                   discoverVars, selectVars, tableVars, found>>

\* createPage: browser.newPage() and the page's configuration
CreatePage ==
    /\ pc = "createPage"
    /\ \/ /\ pagesOpen' = pagesOpen + 1
          /\ pc' = "navigate"
          /\ UNCHANGED <<err, completion>>
       \/ \E opened \in BOOLEAN :
            /\ pagesOpen' = IF opened THEN pagesOpen + 1 ELSE pagesOpen
            /\ Throw("createPage failed")
    /\ UNCHANGED <<toolVars, control, fetchCount, inputVars, parserVars, feedVars, launches, closeCalls, proc, procKilled, closeOutcome,
                   gotoCount, cand, discoverVars, selectVars, tableVars, found>>


(***************************************************************************)
(* navigation.ts                                                           *)
(***************************************************************************)
\* what page.goto followed by waitForAngular can do: succeed, or throw at
\* page.goto, at waitForSelector('[ng-app]'), or (requireSelects only) at
\* waitForSelector('select')
NavigationOutcomes(requireSelects) ==
    {"loaded", "goto failed", "no [ng-app]"}
        \cup (IF requireSelects THEN {"no select"} ELSE {})

\* navigateToSchedulePage(page, seasonId): one page.goto, then
\* waitForAngular(page, !seasonId); any failure becomes WebsiteUnavailableError.
\* discover passes no seasonId, scrapeSchedule passes one.
NavigateToSchedulePage ==
    /\ pc = "navigate"
    /\ gotoCount' = gotoCount + 1
    /\ \E outcome \in NavigationOutcomes(op = "discover") :
         IF outcome = "loaded"
         THEN /\ pc' = IF op = "discover" THEN "seasonOptions" ELSE "selectTeam"
              /\ cand' = 1
              /\ UNCHANGED <<err, completion>>
         ELSE /\ Throw("WebsiteUnavailableError")
              /\ cand' = cand
    /\ UNCHANGED <<toolVars, control, fetchCount, inputVars, parserVars, feedVars, browserVars, discoverVars, selectVars, tableVars, found>>

\* getSeasonOptions returning an empty array after the last candidate, as
\* the lookups of the other two controls do
GetSeasonOptionsReturningEmpty ==
    /\ pc = "seasonOptions"
    /\ \E c \in Controls(RawSeasonOptions) :
         /\ control' = <<c>>
         /\ IF c.exists /\ Len(extractSelectOptions(c.options)) > 0
            THEN cand' = 0 /\ seasons' = extractSelectOptions(c.options) /\ pc' = "resolveSeason"
            ELSE IF cand < Len(seasonSelectors)
            THEN cand' = cand + 1 /\ UNCHANGED <<pc, seasons>>
            ELSE cand' = 0 /\ seasons' = <<>> /\ pc' = "resolveSeason"
    /\ UNCHANGED <<toolVars, fetchCount, inputVars, parserVars, feedVars, browserVars, gotoCount, divisions, teams, seasonValue, divisionValue, result,
                   selectVars, tableVars, found, completion, err>>

\* getSeasonOptions, one iteration of `for (const selector of seasonSelectors)`:
\* extractSelectOptions throws ScrapingError (selector not found in time, or
\* $$eval failed), or returns the valid options; the first non-empty list is
\* returned, and after the last candidate ScrapingError is thrown.
GetSeasonOptions ==
    /\ pc = "seasonOptions"
    /\ \E c \in Controls(RawSeasonOptions) :
         /\ control' = <<c>>
         /\ IF c.exists /\ Len(extractSelectOptions(c.options)) > 0
            THEN /\ seasons' = extractSelectOptions(c.options)
                 /\ cand' = 0
                 /\ pc' = "resolveSeason"
                 /\ UNCHANGED <<err, completion>>
            ELSE IF cand < Len(seasonSelectors)
            THEN /\ cand' = cand + 1
                 /\ UNCHANGED <<pc, err, completion, seasons>>
            ELSE /\ cand' = 0
                 /\ Throw("ScrapingError: season dropdown (tried multiple selectors)")
                 /\ UNCHANGED seasons
    /\ UNCHANGED <<toolVars, fetchCount, inputVars, parserVars, feedVars, browserVars, gotoCount, divisions, teams, seasonValue, divisionValue, result,
                   selectVars, tableVars, found>>

\* selectDropdownOption inside a `for ... try { select; break } catch { continue }`
\* loop: page.select, the 2 s delay and waitForNetworkIdle all succeed (break),
\* or one of them throws ScrapingError (continue); after the last candidate the
\* loop simply ends.
SelectLoop(role, selectors, next) ==
    /\ selectTried' = [selectTried EXCEPT ![role] = TRUE]
    /\ \/ /\ selectDone' = [selectDone EXCEPT ![role] = TRUE]
          /\ cand' = 1
          /\ pc' = next
       \/ /\ selectDone' = selectDone
          /\ IF cand < Len(selectors)
             THEN cand' = cand + 1 /\ pc' = pc
             ELSE cand' = 1 /\ pc' = next

\* getDivisionOptions loading the page again before it selects the season
SelectSeasonReloading ==
    /\ pc = "selectSeason"
    /\ gotoCount' = gotoCount + 1
    /\ SelectLoop("season", seasonSelectSelectors, "divisionOptions")
    /\ UNCHANGED <<toolVars, control, fetchCount, inputVars, parserVars, feedVars, browserVars, discoverVars, completion, err, tableVars, found>>

\* getDivisionOptions, first loop: select the season on the loaded page
SelectSeason ==
    /\ pc = "selectSeason"
    /\ SelectLoop("season", seasonSelectSelectors, "divisionOptions")
    /\ UNCHANGED <<toolVars, control, fetchCount, inputVars, parserVars, feedVars, browserVars, gotoCount, discoverVars, completion, err,
                   tableVars, found>>

\* getDivisionOptions, second loop: the first candidate with a non-empty list
\* of valid options; an empty array when no candidate has one
GetDivisionOptions ==
    /\ pc = "divisionOptions"
    /\ \E c \in Controls(RawDivisionOptions) :
         /\ control' = <<c>>
         /\ IF c.exists /\ Len(extractSelectOptions(c.options)) > 0
            THEN cand' = 0 /\ divisions' = extractSelectOptions(c.options) /\ pc' = "resolveDivision"
            ELSE IF cand < Len(divisionSelectors)
            THEN cand' = cand + 1 /\ UNCHANGED <<pc, divisions>>
            ELSE cand' = 0 /\ divisions' = <<>> /\ pc' = "resolveDivision"
    /\ UNCHANGED <<toolVars, fetchCount, inputVars, parserVars, feedVars, browserVars, gotoCount, seasons, teams, seasonValue, divisionValue, result,
                   selectVars, tableVars, found, completion, err>>

\* getTeamOptions, first loop: select the division
SelectDivision ==
    /\ pc = "selectDivision"
    /\ SelectLoop("division", divisionSelectSelectors, "teamOptions")
    /\ UNCHANGED <<toolVars, control, fetchCount, inputVars, parserVars, feedVars, browserVars, gotoCount, discoverVars, completion, err,
                   tableVars, found>>

\* getTeamOptions, second loop, and the return inside `if (divisionValue)`
GetTeamOptions ==
    /\ pc = "teamOptions"
    /\ \E c \in Controls(RawTeamOptions) :
         /\ control' = <<c>>
         /\ IF c.exists /\ Len(extractSelectOptions(c.options)) > 0
            THEN cand' = 0 /\ teams' = extractSelectOptions(c.options) /\ pc' = "buildResult"
            ELSE IF cand < Len(teamSelectors)
            THEN cand' = cand + 1 /\ UNCHANGED <<pc, teams>>
            ELSE cand' = 0 /\ teams' = <<>> /\ pc' = "buildResult"
    /\ UNCHANGED <<toolVars, fetchCount, inputVars, parserVars, feedVars, browserVars, gotoCount, seasons, divisions, seasonValue, divisionValue, result,
                   selectVars, tableVars, found, completion, err>>


(***************************************************************************)
(* discovery.ts: getScheduleOptions between the awaits.                    *)
(***************************************************************************)
\* `if (label) { opt = findOptionByLabel(options, label); if (opt) value =
\* opt.value }`: the value the label resolves to, "" (undefined) when the
\* label is absent or matches nothing
ResolveLabel(options, label) ==
    LET idx == IF label # "" THEN findOptionByLabel(options, label) ELSE 0
    IN  IF idx # 0 THEN options[idx].value ELSE ""

ScheduleOptions(s, d, t) == [seasons |-> s, divisions |-> d, teams |-> t]

\* the options with the one of that value marked as selected; value "" is
\* undefined, which equals no option's value
MarkResolved(options, value) == IF value # "" THEN MarkSelected(options, value) ELSE options

\* getScheduleOptions fetching the divisions whether or not a season was
\* resolved
SeasonResolvedRegardless(value) ==
    /\ seasonValue' = IF value # "" THEN value ELSE seasons[1].value
    /\ seasons' = MarkResolved(seasons, value)
    /\ pc' = "selectSeason"
    /\ cand' = 1
    /\ UNCHANGED <<result, completion, err>>

\* lines 47-69 given the value the season label resolved to: with a value the
\* divisions are fetched, without one nothing more is (lines 111-123 return)
SeasonResolved(value) ==
    /\ seasonValue' = value
    /\ seasons' = MarkResolved(seasons, value)
    /\ IF value # ""
       THEN /\ pc' = "selectSeason"
            /\ cand' = 1
            /\ UNCHANGED <<result, completion, err>>
       ELSE /\ result' = <<ScheduleOptions(seasons, <<>>, <<>>)>>
            /\ cand' = cand
            /\ Return

\* lines 47-69 (and 111-123 when no season was resolved)
ResolveSeason ==
    /\ pc = "resolveSeason"
    /\ SeasonResolved(ResolveLabel(seasons, seasonLabel))
    /\ UNCHANGED <<toolVars, control, fetchCount, inputVars, parserVars, feedVars, browserVars, gotoCount, divisions, teams, divisionValue,
                   selectVars, tableVars, found>>

\* getScheduleOptions failing on a division label that matches no option
DivisionResolvedOrThrow(value) ==
    /\ divisionValue' = value
    /\ divisions' = MarkResolved(divisions, value)
    /\ IF value # ""
       THEN /\ pc' = "selectDivision"
            /\ cand' = 1
            /\ UNCHANGED <<result, completion, err>>
       ELSE IF divisionLabel # ""
       THEN /\ Throw("division label not found")
            /\ UNCHANGED <<result, cand>>
       ELSE /\ result' = <<ScheduleOptions(seasons, divisions, <<>>)>>
            /\ cand' = cand
            /\ Return

\* lines 71-93 given the value the division label resolved to
DivisionResolved(value) ==
    /\ divisionValue' = value
    /\ divisions' = MarkResolved(divisions, value)
    /\ IF value # ""
       THEN /\ pc' = "selectDivision"
            /\ cand' = 1
            /\ UNCHANGED <<result, completion, err>>
       ELSE /\ result' = <<ScheduleOptions(seasons, divisions, <<>>)>>
            /\ cand' = cand
            /\ Return

\* lines 71-93 (and 111-123 when no division was resolved)
ResolveDivision ==
    /\ pc = "resolveDivision"
    /\ DivisionResolved(ResolveLabel(divisions, divisionLabel))
    /\ UNCHANGED <<toolVars, control, fetchCount, inputVars, parserVars, feedVars, browserVars, gotoCount, seasons, teams, seasonValue,
                   selectVars, tableVars, found>>

\* lines 95-107
BuildResult ==
    /\ pc = "buildResult"
    /\ result' = <<ScheduleOptions(seasons, divisions, teams)>>
    /\ Return
    /\ UNCHANGED <<toolVars, control, fetchCount, inputVars, parserVars, feedVars, browserVars, gotoCount, cand, seasons, divisions, teams,
                   seasonValue, divisionValue, selectVars, tableVars, found>>

(***************************************************************************)
(* browser.ts: closeBrowser, called from the finally block.                *)
(***************************************************************************)
\* closeBrowser returned: the finally block is over and the operation
\* completes the way its try block did
Finished == IF completion = "return" THEN "returned" ELSE "thrown"

\* `const pages = await browser.pages()`: resolves, or rejects into the catch
CloseBrowserPages ==
    /\ pc = "finally"
    /\ closeCalls' = closeCalls + 1
    /\ \/ pc' = "closePages"
       \/ pc' = "forceKill"
    /\ UNCHANGED <<toolVars, control, fetchCount, inputVars, parserVars, feedVars, launches, pagesOpen, proc, procKilled, closeOutcome,
                   gotoCount, cand, discoverVars, selectVars, completion, err,
                   tableVars, found>>

\* `await Promise.all(pages.map(page => page.close().catch(() => {})))`: every
\* page.close() is awaited; one that rejects is ignored and its page stays,
\* and one that never settles (no timer is raced with it) keeps Promise.all
\* pending
CloseBrowserClosePages ==
    /\ pc = "closePages"
    /\ \/ pagesOpen' = 0 /\ pc' = "browserClose"
       \/ \E left \in 1..pagesOpen : pagesOpen' = left /\ pc' = "browserClose"
       \/ pagesOpen' = pagesOpen /\ pc' = "awaiting"
    /\ UNCHANGED <<toolVars, control, fetchCount, inputVars, parserVars, feedVars, launches, closeCalls, proc, procKilled, closeOutcome,
                   gotoCount, cand, discoverVars, selectVars, completion, err,
                   tableVars, found>>

\* `await Promise.race([browser.close(), <reject after 3000 ms>])`: the browser
\* closes in time (its process exits), or browser.close() rejects, or the timer
\* wins; in the last two cases puppeteer may or may not have signalled the
\* process already
CloseBrowserClose ==
    /\ pc = "browserClose"
    /\ \/ /\ closeOutcome' = "closed"
          /\ proc' = "closed"
          /\ pagesOpen' = 0
          /\ pc' = Finished
          /\ UNCHANGED procKilled
       \/ \E outcome \in {"rejected", "timeout"}, signalled \in BOOLEAN :
            /\ closeOutcome' = outcome
            /\ procKilled' = signalled
            /\ proc' = IF signalled THEN "killed" ELSE "running"
            /\ pc' = "forceKill"
            /\ UNCHANGED pagesOpen
    /\ UNCHANGED <<toolVars, control, fetchCount, inputVars, parserVars, feedVars, launches, closeCalls, gotoCount, cand, discoverVars,
                   selectVars, completion, err, tableVars, found>>

\* the catch block: `process = browser.process(); if (process &&
\* !process.killed) process.kill('SIGKILL')` inside its own try/catch, which
\* only logs when the kill throws
CloseBrowserKill ==
    /\ pc = "forceKill"
    /\ IF proc # "none" /\ ~procKilled
       THEN \/ proc' = "killed" /\ procKilled' = TRUE
            \/ UNCHANGED <<proc, procKilled>>
       ELSE UNCHANGED <<proc, procKilled>>
    /\ pc' = Finished
    /\ UNCHANGED <<toolVars, control, fetchCount, inputVars, parserVars, feedVars, launches, closeCalls, pagesOpen, closeOutcome, gotoCount,
                   cand, discoverVars, selectVars, completion, err, tableVars, found>>


(***************************************************************************)
(* The schedule page: the tables it may hold.  A body row is written by    *)
(* column role and laid out in the order of the table's header.            *)
(***************************************************************************)
Cells(date, time, home, away, venue, status) ==
    [date |-> date, time |-> time, home |-> home, away |-> away, venue |-> venue,
     status |-> status]

BodyRows ==
    { Cells("Sat Sep 13", "7:15 PM PDT", "Lions 12u ALNS", "Storm 12u A", "Great Park - Rink 2",
            "Final"),
      Cells("01/01/2026", "", "Jr Sharks", "Lady Ducks", "", ""),
      Cells("TBD", "10:00 AM", "Lady Ducks", "Jr Sharks", "Toyota Center", ""),
      Cells("2025-10-05", "noon", "Storm 12u A", "Jr Sharks", "", ""),
      Cells("Date", "Time", "Home", "Away", "Venue", "Status"),
      Cells("10/12/2025", "9:00AM", "", "Lady Ducks", "Toyota Center", "") }

\* headers with the required columns
ScheduleHeads ==
    { << "Date", "Time", "Home", "Away", "Venue", "Status" >>,
      << "Visitor", "Home Team", " Game Date ", "Location" >>,
      << "Date", "Home", "Away" >> }

\* a header that qualifies but lacks the home and away columns
TeamHead == << "Date", "Team", "Opponent" >>

\* the cell a body row holds under a header cell
CellUnder(headCell, cells) ==
    LET h == ToLowerCase(Trim(headCell))
    IN  CASE h \in {"date", "game date"} -> cells.date
          [] h = "time" -> cells.time
          [] h \in {"home", "home team", "team"} -> cells.home
          [] h \in {"away", "visitor", "opponent"} -> cells.away
          [] h \in {"venue", "location"} -> cells.venue
          [] OTHER -> cells.status

\* the body rows a table with this header may hold: laid-out rows, a row
\* without any <td>, and the header's own cells again
RowsUnder(head) ==
    { [i \in 1..Len(head) |-> CellUnder(head[i], cells)] : cells \in BodyRows }
        \cup {<<>>, head}

OtherTables ==
    { Table(<< "Rank", "Team", "Points" >>, << << "1", "Lions 12u A", "12" >> >>),
      Table(<<>>, << << "Date", "Home", "Away" >> >>) }

ScheduleTables(maxRows) ==
    UNION { { Table(head, body) : body \in SeqsUpTo(RowsUnder(head), maxRows) } :
            head \in ScheduleHeads }
        \cup { Table(TeamHead, body) : body \in SeqsUpTo(RowsUnder(TeamHead), 1) }

\* the pages extractGames is run on: no table, one table, or a table of at
\* most one row after another table
ExtractPages ==
    {<<>>} \cup { <<t>> : t \in ScheduleTables(MaxRows) \cup OtherTables }
           \cup { <<o, t>> : o \in OtherTables, t \in ScheduleTables(1) }

\* the pages scrapeSchedule is run on: no table, or one table of at most one row
ScrapePages ==
    {<<>>} \cup { <<t>> : t \in ScheduleTables(1) \cup OtherTables }

PagesOf(operation) == IF operation = "scrape" THEN ScrapePages ELSE ExtractPages

(***************************************************************************)
(* schedule.ts: scrapeSchedule after the page is loaded.                   *)
(***************************************************************************)
\* lines 241-262: with a teamId, one iteration of the team selector loop;
\* a failed selection on every candidate is logged and the call goes on
SelectTeam ==
    /\ pc = "selectTeam"
    /\ IF teamId = ""
       THEN /\ pc' = "scope"
            /\ UNCHANGED <<cand, selectVars>>
       ELSE SelectLoop("team", teamSelectSelectors, "scope")
    /\ UNCHANGED <<toolVars, control, fetchCount, inputVars, parserVars, feedVars, browserVars, gotoCount, discoverVars, completion, err,
                   tableVars, found>>

\* lines 266-304: click the "current" or the "full" link if there is one (a
\* failing page.evaluate is caught), and the fixed delays
SwitchScope ==
    /\ pc = "scope"
    /\ pc' = "extract"
    /\ UNCHANGED <<toolVars, control, fetchCount, inputVars, parserVars, feedVars, browserVars, gotoCount, cand, discoverVars, selectVars,
                   completion, err, tableVars, found>>

\* parseScheduleTable before its row loop, given the shape of the rows:
\* `return []`, the throw, or the loop entered
StartRows(shape) ==
    CASE shape = "empty" -> Return /\ rowIdx' = rowIdx
      [] shape = "unrecognized" ->
             Throw("Schedule table format not recognized") /\ rowIdx' = rowIdx
      [] OTHER -> /\ pc' = "parseRows"
                  /\ rowIdx' = 1
                  /\ UNCHANGED <<completion, err>>

\* parseScheduleTable(tableData, ...) called with the rows extracted
ParseScheduleTableStart(data) ==
    /\ tableData' = data
    /\ games' = <<>>
    /\ StartRows(TableShape(data))

\* extractScheduleTable and the synchronous start of parseScheduleTable:
\* waitForSelector('table') times out on a page without tables (any error
\* becomes 'Could not find schedule table on page'); otherwise the rows are
\* extracted, and parseScheduleTable returns [] for fewer than two rows,
\* throws when a required column is missing, or enters its row loop
ExtractScheduleTable ==
    /\ pc = "extract"
    /\ \E page \in PagesOf(op) :
         /\ tables' = page
         /\ IF Len(page) = 0
            THEN /\ Throw("Could not find schedule table on page")
                 /\ UNCHANGED <<tableData, rowIdx, games>>
            ELSE ParseScheduleTableStart(extractScheduleTable(page))
    /\ UNCHANGED <<toolVars, control, fetchCount, inputVars, parserVars, feedVars, browserVars, gotoCount, cand, discoverVars, selectVars,
                   found>>

\* parseScheduleTable with the try around the whole loop: a row that fails
\* ends the loop and the call throws
ParseRowsAbortOnFailure ==
    /\ pc = "parseRows"
    /\ games' = games \o ParseRow(tableData[rowIdx + 1], Columns(tableData), division,
                                  season, eastOfPacific).games
    /\ rowIdx' = rowIdx + 1
    /\ IF ParseRow(tableData[rowIdx + 1], Columns(tableData), division, season,
                   eastOfPacific).kind = "failed"
       THEN Throw("Error parsing row")
       ELSE IF rowIdx + 1 < Len(tableData)
       THEN UNCHANGED <<pc, completion, err>>
       ELSE Return
    /\ UNCHANGED <<toolVars, control, fetchCount, inputVars, parserVars, feedVars, browserVars, gotoCount, cand, discoverVars, selectVars,
                   tables, tableData, found>>

\* parseScheduleTable, one iteration of `for (const row of dataRows)`: the
\* row is skipped, or fails inside the try (logged, next row), or its game
\* is pushed; after the last row the games are returned
ParseRows ==
    /\ pc = "parseRows"
    /\ LET outcome == ParseRow(tableData[rowIdx + 1], Columns(tableData), division,
                               season, eastOfPacific)
       IN  games' = games \o outcome.games
    /\ IF rowIdx + 1 < Len(tableData)
       THEN /\ rowIdx' = rowIdx + 1
            /\ UNCHANGED <<pc, completion, err>>
       ELSE /\ rowIdx' = rowIdx + 1
            /\ Return
    /\ UNCHANGED <<toolVars, control, fetchCount, inputVars, parserVars, feedVars, browserVars, gotoCount, cand, discoverVars, selectVars,
                   tables, tableData, found>>

(***************************************************************************)
(* findOptionByLabel on its own.                                           *)
(***************************************************************************)
\* the characters of the labels looked for
Alphabet == {"a", "b", " "}

\* the labels of the options
OptionLabels == {"a", "aB", "B", "a b"}

\* the texts over an alphabet of length 0..n
RECURSIVE Texts(_, _)
Texts(alphabet, n) ==
    IF n = 0 THEN {""}
    ELSE Texts(alphabet, n - 1) \cup { t \o c : t \in Texts(alphabet, n - 1), c \in alphabet }

FindOption ==
    /\ pc = "find"
    /\ found' = findOptionByLabel(seasons, seasonLabel)
    /\ pc' = "found"
    /\ UNCHANGED <<toolVars, control, fetchCount, inputVars, parserVars, feedVars, browserVars, gotoCount, cand, discoverVars, selectVars,
                   completion, err, tableVars>>

(***************************************************************************)
(* The calendar feed: the events its payload may hold.                     *)
(***************************************************************************)
\* the statuses the endpoint answers with
HttpStatuses == {200, 204, 404, 500}

\* team names as a feed may write them
TeamNames == {"Storm 12u AA", "Jr Ducks", " Jets", "Lions @"}

\* "A @ B" and "A vs B" for every two names
Summaries == { a \o sep \o b : a \in TeamNames, b \in TeamNames, sep \in {" @ ", " vs "} }

\* 7:15 PM PDT on Sep 13, 2025
SeptemberEvening == UtcTime(2025, 9, 14, 2, 15)

\* entries of the payload: games, an event without delimiter, one without
\* summary, one without start, and the VTIMEZONE entry
FeedEntries ==
    { Event("VEVENT", "Storm 12u AA @ Jr Ducks", "Great Park / Rink 2", SeptemberEvening),
      Event("VEVENT", "Jr Ducks vs Storm 12u AA", "Toyota Center", UtcTime(2026, 1, 10, 18, 0)),
      Event("VEVENT", "Lions 12u AAAA @ Storm 12u AA", "", UtcTime(2025, 3, 9, 10, 5)),
      Event("VEVENT", "Team Practice", "Great Park", UtcTime(2025, 11, 2, 9, 30)),
      Event("VEVENT", "", "", UtcTime(2025, 12, 25, 8, 5)),
      Event("VEVENT", "Jr Ducks @ Lady Ducks", "Toyota Center", NoStart),
      Event("VTIMEZONE", "", "", NoStart) }

\* what parseICS may return: entries in any order, or one event with any
\* of the summaries
FeedEventLists(maxEvents) ==
    SeqsUpTo(FeedEntries, maxEvents)
        \cup { << Event("VEVENT", s, "", SeptemberEvening) >> : s \in Summaries }

(***************************************************************************)
(* ical-scraper.ts: fetchScheduleFromICal                                  *)
(***************************************************************************)
Response(status) == [ok |-> status \in 200..299, status |-> status]

\* `HTTP ${response.status}: ${response.statusText}`
HttpError(status) == "HTTP " \o IntToString(status)

\* lines 48-52 with every response taken for a success
FetchFeedIgnoringStatus ==
    /\ pc = "fetch"
    /\ fetchCount' = fetchCount + 1
    /\ \/ /\ Throw("TypeError: fetch failed")
          /\ UNCHANGED response
       \/ \E status \in HttpStatuses :
            /\ response' = << Response(status) >>
            /\ pc' = "readFeed"
            /\ UNCHANGED <<completion, err>>
    /\ UNCHANGED <<toolVars, control, inputVars, parserVars, browserVars, gotoCount, cand, discoverVars,
                   selectVars, tableVars, found, feedParsed, events, eventIdx>>

\* lines 48-52 with a second fetch after the first one was rejected
FetchFeedRetrying ==
    /\ pc = "fetch"
    /\ fetchCount' = fetchCount + 1
    /\ \/ /\ IF fetchCount = 0
             THEN UNCHANGED <<pc, completion, err>>
             ELSE Throw("TypeError: fetch failed")
          /\ UNCHANGED response
       \/ /\ pc' = "awaiting"
          /\ UNCHANGED <<response, completion, err>>
       \/ \E status \in HttpStatuses :
            /\ response' = << Response(status) >>
            /\ IF Response(status).ok
               THEN pc' = "readFeed" /\ UNCHANGED <<completion, err>>
               ELSE Throw(HttpError(status))
    /\ UNCHANGED <<toolVars, control, inputVars, parserVars, browserVars, gotoCount, cand, discoverVars,
                   selectVars, tableVars, found, feedParsed, events, eventIdx>>

\* lines 48-52: `await fetch(url)` rejects (the catch logs and rethrows),
\* never settles (the call passes no signal and no timeout), or resolves
\* with a response; a response that is not ok is thrown as an Error
FetchFeed ==
    /\ pc = "fetch"
    /\ fetchCount' = fetchCount + 1
    /\ \/ /\ Throw("TypeError: fetch failed")
          /\ UNCHANGED response
       \/ /\ pc' = "awaiting"
          /\ UNCHANGED <<response, completion, err>>
       \/ \E status \in HttpStatuses :
            /\ response' = << Response(status) >>
            /\ IF Response(status).ok
               THEN pc' = "readFeed" /\ UNCHANGED <<completion, err>>
               ELSE Throw(HttpError(status))
    /\ UNCHANGED <<toolVars, control, inputVars, parserVars, browserVars, gotoCount, cand, discoverVars,
                   selectVars, tableVars, found, feedParsed, events, eventIdx>>

\* lines 54-61: the body is read and parsed; with nothing to go through the
\* loop does not run and the (empty) sorted list is returned
ReadFeed ==
    /\ pc = "readFeed"
    /\ feedParsed' = TRUE
    /\ \E parsed \in FeedEventLists(MaxEvents) :
         /\ events' = parsed
         /\ IF Len(parsed) = 0
            THEN games' = SortByDate(<<>>) /\ Return
            ELSE games' = <<>> /\ pc' = "events" /\ UNCHANGED <<completion, err>>
    /\ UNCHANGED <<toolVars, control, fetchCount, inputVars, parserVars, browserVars, gotoCount, cand, discoverVars,
                   selectVars, tables, tableData, rowIdx, found, response, eventIdx>>

\* `games.push(game)` unless parseICalEvent threw (logged, next event)
PushParsed(gs, outcome) == IF outcome.ok THEN Append(gs, outcome.value) ELSE gs

\* one iteration of the loop of lines 63-73
GamesAfter(gs, event) ==
    IF event.type # "VEVENT" THEN gs ELSE PushParsed(gs, parseICalEvent(event))

\* lines 63-80: one iteration of `for (const [uid, event] of ...)`; after
\* the last one the games are sorted and returned
ConvertEvent ==
    /\ pc = "events"
    /\ eventIdx' = eventIdx + 1
    /\ IF eventIdx + 1 < Len(events)
       THEN /\ games' = GamesAfter(games, events[eventIdx + 1])
            /\ UNCHANGED <<pc, completion, err>>
       ELSE /\ games' = SortByDate(GamesAfter(games, events[eventIdx + 1]))
            /\ Return
    /\ UNCHANGED <<toolVars, control, fetchCount, inputVars, parserVars, browserVars, gotoCount, cand, discoverVars,
                   selectVars, tables, tableData, rowIdx, found, response, feedParsed,
                   events>>

(***************************************************************************)
(* The parsers of date-parser.ts on their own: the texts they are given.   *)
(***************************************************************************)
Minutes == {"00", "05", "15", "59"}

\* "H:MM", the marker after it with or without a space, a zone or none
TwelveHourText(h, mm, sep, marker, zone) ==
    IntToString(h) \o ":" \o mm \o sep \o marker \o zone

TwelveHourTexts ==
    { TwelveHourText(h, mm, sep, marker, zone) :
        h \in 1..12, mm \in Minutes, sep \in {"", " "}, marker \in {"AM", "PM", "pm"},
        zone \in {"", " PDT", " PST"} }

\* "HH:MM"
NormalizedText(h, mm) == PadStart(IntToString(h), 2) \o ":" \o mm

TwentyFourHourTexts ==
    { NormalizedText(h, mm) : h \in 0..23, mm \in Minutes }
        \cup { IntToString(h) \o ":" \o mm : h \in 0..9, mm \in Minutes }
        \cup { NormalizedText(h, mm) \o ":00" : h \in 0..23, mm \in Minutes }

OtherTimeTexts ==
    {"", "TBD", "noon", "PM", "25:00", "13:00 PM", "7:5 PM PDT", " 7:15PM ", "7 PM PDT", "19:15 PDT"}

TimeTexts == TwelveHourTexts \cup TwentyFourHourTexts \cup OtherTimeTexts

WeekdayNames == << "Sun", "Mon", "Tue", "Wed", "Thu", "Fri", "Sat" >>

MonthNames ==
    << "Jan", "Feb", "Mar", "Apr", "May", "Jun", "Jul", "Aug", "Sep", "Oct", "Nov", "Dec" >>

\* the days of the month written in the texts
SampleDays == {1, 9, 13, 28, 29, 30, 31}

DayText(d, padded) == IF padded THEN PadStart(IntToString(d), 2) ELSE IntToString(d)

\* "<wd> <mon> <day>" with the weekday day d of month m has in year y
WeekdayMonthDayText(y, m, d, padded) ==
    WeekdayNames[DayOfWeek(y, m, d) + 1] \o " " \o MonthNames[m] \o " " \o DayText(d, padded)

WeekdayMonthDayTexts ==
    { WeekdayMonthDayText(y, m, d, padded) :
        y \in {2024, 2025}, m \in 1..12, d \in SampleDays, padded \in BOOLEAN }

OtherDateTexts ==
    {"09/13/2025", "9/13/2025", "1/5/2026", "09/13/25", "13/01/2025", "02/29/2025",
     "02/29/2024", "01/01/2030", "2025-09-13", "2026-01-10", "2025-13-45", "2026-02-30",
     "", "TBD", "Sep 13", "Sat Sep 13 2025", "Saturday Sep 13", "sat sep 13 ", "S S 3"}

DateTexts == WeekdayMonthDayTexts \cup OtherDateTexts

SeasonTexts == {"2025-26", "2024-25", "Fall 2025"}

InputNames ==
    {"storm", "jets", "Las Vegas Storm 12u AA", "Jr. Ducks", "jr ducks", "JR  DUCKS", "",
     "  ", "St. Louis", "12u_aa", "vegas storm", "ducks 12u", "O'Brien", "storm 12U  aa!",
     "las vegas storm 12u aaa"}

CanonicalNames ==
    {"Las Vegas Storm 12u AA", "Jr. Ducks 12u AA", "storm", "St.Louis Blues", "OBrien's",
     "", "Ducks\t12u", "jr ducks"}

(***************************************************************************)
(* date-parser.ts: a call of parsePGHLTime, parsePGHLDate, teamNamesMatch. *)
(***************************************************************************)
\* the call ends: the value is returned, or the error thrown
Finish(outcome) ==
    /\ returned' = << outcome >>
    /\ IF outcome.ok THEN Return ELSE Throw(outcome.value)

ParseTime ==
    /\ pc = "parseTime"
    /\ Finish(parsePGHLTime(timeStr))
    /\ UNCHANGED <<toolVars, control, fetchCount, inputVars, argumentVars, feedVars, browserVars, gotoCount, cand,
                   discoverVars, selectVars, tableVars, found>>

ParseDate ==
    /\ pc = "parseDate"
    /\ Finish(parsePGHLDate(dateStr, season, eastOfPacific))
    /\ UNCHANGED <<toolVars, control, fetchCount, inputVars, argumentVars, feedVars, browserVars, gotoCount, cand,
                   discoverVars, selectVars, tableVars, found>>

MatchNames ==
    /\ pc = "matchNames"
    /\ returned' = << teamNamesMatch(input, canonical) >>
    /\ Return
    /\ UNCHANGED <<toolVars, control, fetchCount, inputVars, argumentVars, feedVars, browserVars, gotoCount, cand,
                   discoverVars, selectVars, tableVars, found>>

(***************************************************************************)
(* parseScheduleTable and the cleaning of a team cell as functions.        *)
(***************************************************************************)
\* the row loop of parseScheduleTable over the rows left: the game of each
\* row that parses, in the rows' order
RECURSIVE ParsedRows(_, _, _, _, _)
ParsedRows(rows, cols, div, seasonText, tzEast) ==
    IF rows = <<>> THEN <<>>
    ELSE ParseRow(Head(rows), cols, div, seasonText, tzEast).games
             \o ParsedRows(Tail(rows), cols, div, seasonText, tzEast)

\* parseScheduleTable(tableData, division, season)
parseScheduleTable(tableRows, div, seasonText, tzEast) ==
    CASE TableShape(tableRows) = "empty" -> Ok(<<>>)
      [] TableShape(tableRows) = "unrecognized" -> Thrown("Schedule table format not recognized")
      [] OTHER -> Ok(ParsedRows(Tail(tableRows), Columns(tableRows), div, seasonText, tzEast))

\* the cell cleaning of extractScheduleTable (trim, then the short code
\* pattern), then `cleanTeamName(row[homeIdx] || '')` of parseScheduleTable
CleanedCell(text) == cleanTeamName(StripShortCode(Trim(text)))

\* the rows with their cells in the order given
Permuted(rows, columnOrder) ==
    [r \in 1..Len(rows) |-> [i \in 1..Len(columnOrder) |-> rows[r][columnOrder[i]]]]

\* the column orders of n columns tried: each exchange of two columns (the
\* order kept when i = j) and the reversed order
Exchanged(n, i, j) == [k \in 1..n |-> IF k = i THEN j ELSE IF k = j THEN i ELSE k]

ColumnOrders(n) ==
    { Exchanged(n, i, j) : i \in 1..n, j \in 1..n } \cup { [k \in 1..n |-> n + 1 - k] }

\* tables as extracted: the format documented at schedule.ts:120, the
\* headers of the tables above, with one or two body rows
DocumentedHead == << "Date", "Time", "Home", "Away", "Venue", "Rink", "Status" >>

DocumentedRows ==
    { << "Sat Sep 13", "7:15 PM PDT", "Lions 12u A", "Storm 12u A", "Great Park", "Rink 2", "Final" >>,
      << "10/12/2025", "", "Jr Sharks", "Lady Ducks", "Toyota Center", "", "" >>,
      << "TBD", "9:00AM", "Lady Ducks", "Jr Sharks", "", "", "" >> }

ColumnTables ==
    { <<DocumentedHead>> \o body : body \in SeqsUpTo(DocumentedRows, 2) \ {<<>>} }
        \cup { << << "Date", "Home", "Away" >>, << "2025-10-05", "Storm 12u A", "Jr Sharks" >> >>,
               << << "Visitor", "Home Team", "Game Date", "Location" >>,
                  << "Lady Ducks", "Jr Sharks", "01/01/2026", "Toyota Center - Rink 1" >> >> }

\* parseScheduleTable on the table, and on the table with its columns in
\* the other order
ParseScheduleTables ==
    /\ pc = "parseTables"
    /\ returned' = << parseScheduleTable(Permuted(tableData, order), division, season,
                                         eastOfPacific) >>
    /\ IF parseScheduleTable(tableData, division, season, eastOfPacific).ok
       THEN /\ games' = parseScheduleTable(tableData, division, season, eastOfPacific).value
            /\ Return
       ELSE /\ games' = <<>>
            /\ Throw(parseScheduleTable(tableData, division, season, eastOfPacific).value)
    /\ UNCHANGED <<toolVars, control, fetchCount, inputVars, argumentVars, feedVars,
                   browserVars, gotoCount, cand, discoverVars, selectVars, tables,
                   tableData, rowIdx, found>>

\* team cells: a name that ends in an age and skill token, and a short code
\* or none after it
TeamCellNames == {"LA Lions", "Storm", "Jr Ducks"}

AgeSkillTokens == {"12u A", "12u AA", "14u AAA", "8u  A"}

ShortCodes == {"", "Lions12AA", "LNS", "12AA", "Storm"}

TeamCell(name, token, code) == name \o " " \o token \o code

TeamCells ==
    { TeamCell(name, token, code) :
        name \in TeamCellNames, token \in AgeSkillTokens, code \in ShortCodes }

\* a team cell from the page to the home or away of a Game
CleanCell ==
    /\ pc = "cleanCell"
    /\ returned' = << CleanedCell(cell) >>
    /\ Return
    /\ UNCHANGED <<toolVars, control, fetchCount, inputVars, argumentVars, feedVars,
                   browserVars, gotoCount, cand, discoverVars, selectVars, tableVars, found>>

(***************************************************************************)
(* season-mapper.ts and division-mapper.ts: the static lookups.  A table   *)
(* is the sequence of its <<key, value>> entries in the order of the       *)
(* source; table[key] is undefined ("") for a key that is not listed (the  *)
(* names looked up are not names of properties of Object.prototype).       *)
(***************************************************************************)
SEASON_ID_MAP ==
    << <<"2025-26 12u-19u AA", "9486">>, <<"2025-26 14-19u Tier 1", "9485">>,
       <<"2024-25 Championships", "8540">>, <<"2024-25 12u-19u AA", "7722">>,
       <<"2024-25 14-19u Tier 1", "7721">>, <<"2023-24 Championships", "6877">>,
       <<"2023-24 Season", "5979">>, <<"2022-23 Championships", "5143">>,
       <<"2022-23 Season", "4679">> >>

AA_DIVISIONS ==
    << <<"12u AA", "42897">>, <<"12u AAA", "42898">>, <<"14u AA", "42899">>,
       <<"16/19u AA", "42900">> >>

TIER1_DIVISIONS == << <<"14u AAA", "42895">>, <<"16/19u AAA", "42896">> >>

\* table[key]
ValueOf(table, key) ==
    IF \E i \in 1..Len(table) : table[i][1] = key
    THEN table[CHOOSE i \in 1..Len(table) : table[i][1] = key][2]
    ELSE ""

\* Object.keys(table).join(', ')
RECURSIVE JoinKeys(_)
JoinKeys(table) ==
    IF Len(table) = 0 THEN ""
    ELSE IF Len(table) = 1 THEN table[1][1]
    ELSE table[1][1] \o ", " \o JoinKeys(Tail(table))

\* the tier of a div name already lowercased and trimmed
TierOf(normalized) ==
    IF Includes(normalized, "tier 1") \/ Includes(normalized, "tier1")
       \/ Includes(normalized, "aaa")
    THEN "Tier1"
    ELSE IF Includes(normalized, "aa") \/ Includes(normalized, "12u")
            \/ Includes(normalized, "10u")
    THEN "AA"
    ELSE "null"

getDivisionTier(div) == TierOf(Trim(ToLowerCase(div)))

\* /(\d{4})[/-](\d{2,4})/ matches s from position at on
YearMatchAt(s, at) ==
    /\ at + 6 <= Len(s)
    /\ AllDigits(Slice(s, at, at + 3))
    /\ Char(s, at + 4) \in {"/", "-"}
    /\ AllDigits(Slice(s, at + 5, at + 6))

\* s.match(/(\d{4})[/-](\d{2,4})/): the position of the leftmost match, 0
\* for null
YearMatch(s) ==
    IF \E at \in 1..Len(s) : YearMatchAt(s, at)
    THEN CHOOSE at \in 1..Len(s) :
            YearMatchAt(s, at) /\ \A b \in 1..(at - 1) : ~YearMatchAt(s, b)
    ELSE 0

\* yearMatch[2].length === 2 ? yearMatch[2] : yearMatch[2].slice(-2)
EndYear(digits) == Slice(digits, Len(digits) - 1, Len(digits))

\* `${startYear}-${endYear}` of the match at position at
YearRange(s, at) ==
    Slice(s, at, at + 3) \o "-" \o EndYear(DigitPrefix(Slice(s, at + 5, Len(s)), 4))

Listed(fullFormat) == ValueOf(SEASON_ID_MAP, fullFormat) # ""

\* normalizeSeasonFormat from the year range on
SeasonOfRange(seasonText, yearRange, tier) ==
    IF tier = "AA" /\ Listed(yearRange \o " 12u-19u AA")
    THEN Ok(yearRange \o " 12u-19u AA")
    ELSE IF tier = "Tier1" /\ Listed(yearRange \o " 14-19u Tier 1")
    THEN Ok(yearRange \o " 14-19u Tier 1")
    ELSE IF Listed(yearRange \o " 12u-19u AA")
    THEN Ok(yearRange \o " 12u-19u AA")
    ELSE IF Listed(yearRange \o " 14-19u Tier 1")
    THEN Ok(yearRange \o " 14-19u Tier 1")
    ELSE Thrown("Season \"" \o seasonText \o "\" not found in known seasons. Available: "
                \o JoinKeys(SEASON_ID_MAP))

\* normalizeSeasonFormat once the season is trimmed; div "" is the
\* absent (or empty, falsy) argument
NormalizedSeason(seasonText, normalized, div) ==
    IF Listed(normalized) THEN Ok(normalized)
    ELSE IF YearMatch(normalized) = 0
    THEN Thrown("Invalid season format: " \o seasonText
                \o ". Expected format like \"2025-26\" or \"2025/26\"")
    ELSE SeasonOfRange(seasonText, YearRange(normalized, YearMatch(normalized)),
                       IF div # "" THEN getDivisionTier(div) ELSE "null")

normalizeSeasonFormat(seasonText, div) == NormalizedSeason(seasonText, Trim(seasonText), div)

\* getSeasonId once the season is normalized
SeasonIdOf(normalizedSeason) ==
    IF ~normalizedSeason.ok THEN normalizedSeason
    ELSE IF ~Listed(normalizedSeason.value)
    THEN Thrown("Season ID not found for: " \o normalizedSeason.value)
    ELSE Ok(ValueOf(SEASON_ID_MAP, normalizedSeason.value))

getSeasonId(seasonText, div) == SeasonIdOf(normalizeSeasonFormat(seasonText, div))

\* getDivisionId once the table is chosen
DivisionIdIn(divisionMap, div) ==
    IF ValueOf(divisionMap, Trim(div)) = ""
    THEN Thrown("Division \"" \o div \o "\" not found. Available divisions: "
                \o JoinKeys(divisionMap))
    ELSE Ok(ValueOf(divisionMap, Trim(div)))

getDivisionId(div, seasonId) ==
    DivisionIdIn(IF seasonId = "9485" THEN TIER1_DIVISIONS ELSE AA_DIVISIONS, div)

\* the season texts and division names the lookups are called with
SeasonArguments ==
    {"2025-26", "2025/26", "2025/2026", "2025-2026", " 2025-26 ", "2025-26 12u-19u AA",
     "2025-26 14-19u Tier 1", "2024-25", "2023-24", "2023-24 Season", "25-26", "Fall 2025"}

DivisionArguments ==
    {"12u AA", "12u AAA", "14u AA", "16/19u AA", "14u AAA", "16/19u AAA",
     "", " 12u AA", "12U AA", "10u A", "Tier 1", "19u"}

\* the season id is resolved from the season text and the division name
GetSeasonId ==
    /\ pc = "getSeasonId"
    /\ returned' = << getSeasonId(season, division) >>
    /\ IF getSeasonId(season, division).ok
       THEN /\ seasonValue' = getSeasonId(season, division).value
            /\ pc' = "getDivisionId"
            /\ UNCHANGED <<completion, err>>
       ELSE /\ Throw(getSeasonId(season, division).value)
            /\ seasonValue' = seasonValue
    /\ UNCHANGED <<toolVars, control, fetchCount, inputVars, argumentVars, feedVars,
                   browserVars, gotoCount, cand, seasons, divisions, teams,
                   divisionValue, result, selectVars, tableVars, found>>

\* the division id is looked up in the table of the season resolved
GetDivisionId ==
    /\ pc = "getDivisionId"
    /\ returned' = << getDivisionId(division, seasonValue) >>
    /\ IF getDivisionId(division, seasonValue).ok
       THEN Return
       ELSE Throw(getDivisionId(division, seasonValue).value)
    /\ UNCHANGED <<toolVars, control, fetchCount, inputVars, argumentVars, feedVars,
                   browserVars, gotoCount, cand, discoverVars, selectVars, tableVars, found>>

(***************************************************************************)
(* The tools: the arguments a caller may send, and the zod schemas.        *)
(***************************************************************************)
\* a property of the arguments object: missing, a string, or a number
Absent == [kind |-> "undefined", text |-> ""]

Text(s) == [kind |-> "string", text |-> s]

ANumber == [kind |-> "number", text |-> ""]

\* the arguments: an object with the two properties the schema of the tool
\* names, in the schema's order, or something that is not an object
Arguments(object, first, second) == [object |-> object, first |-> first, second |-> second]

NoArguments == Arguments(FALSE, Absent, Absent)

FirstValues == {Absent, ANumber, Text("9486"), Text("2025-26"), Text("2019-20")}

SecondValues == {Absent, ANumber, Text("12U a"), Text("42897")}

ToolArguments ==
    {NoArguments} \cup { Arguments(TRUE, f, s) : f \in FirstValues, s \in SecondValues }

\* the tools registered in http/app/page.tsx, a tool of an earlier version,
\* and a name that never was a tool
ToolNames ==
    {"get_team_schedule", "get_division_schedule", "list_schedule_options",
     "get_next_game", "no_such_tool"}

IsString(v) == v.kind = "string"

IsOptionalString(v) == v.kind \in {"string", "undefined"}

\* z.object({ season_id: z.string(), division_id: z.string().optional() })
GetDivisionScheduleSchema(a) == a.object /\ IsString(a.first) /\ IsOptionalString(a.second)

\* z.object({ team_id: z.string(), season_id: z.string().optional() })
GetTeamScheduleSchema(a) == a.object /\ IsString(a.first) /\ IsOptionalString(a.second)

\* z.object({ season: z.string().optional(), division: z.string().optional() })
ListScheduleOptionsArgsSchema(a) ==
    a.object /\ IsOptionalString(a.first) /\ IsOptionalString(a.second)

\* the message of the ZodError that parse throws, its issues abridged
ZodIssues == "[{\"code\":\"invalid_type\"}]"

(***************************************************************************)
(* The tool handlers, and the CallTool request handler of server.ts.       *)
(***************************************************************************)
\* { content: [{ type: 'text', text: `Error: ${error.message}` }], isError: true }
ErrorPayload(message) == [isError |-> TRUE, text |-> "Error: " \o message]

\* { content: [{ type: 'text', text }] }
TextPayload(text) == [isError |-> FALSE, text |-> text]

\* a catch block that logs the error and throws it again
HandlerRethrow(e) ==
    /\ payload' = <<>>
    /\ escaped' = TRUE
    /\ pc' = "responded"

\* the catch block of each handler: the error is logged and the payload
\* that carries its message is returned
HandlerCatch(e) ==
    /\ payload' = << ErrorPayload(e) >>
    /\ escaped' = FALSE
    /\ pc' = "responded"

\* Schema.parse(args) throws inside the try block
ArgumentsRejected ==
    /\ completion' = "throw"
    /\ err' = ZodIssues
    /\ HandlerCatch(ZodIssues)
    /\ UNCHANGED <<op, seasonLabel, divisionLabel>>

\* `await fetchScheduleFromICal({...})` is entered
StartFeed ==
    /\ op' = "feed"
    /\ pc' = "fetch"
    /\ UNCHANGED <<seasonLabel, divisionLabel, completion, err, payload, escaped>>

\* server.ts registerTools, the CallToolRequestSchema handler: every case of
\* the switch is commented out, so each name takes the default branch, and
\* the catch block answers with the error payload
CallToolRequest ==
    /\ pc = "request"
    /\ completion' = "throw"
    /\ err' = "Unknown tool: " \o tool
    /\ HandlerCatch("Unknown tool: " \o tool)
    /\ UNCHANGED <<tool, args, control, fetchCount, inputVars, parserVars, feedVars, browserVars, gotoCount,
                   cand, discoverVars, selectVars, tableVars, found>>

\* getDivisionScheduleTool.handler up to the await
GetDivisionSchedule ==
    /\ pc = "request"
    /\ tool = "get_division_schedule"
    /\ IF GetDivisionScheduleSchema(args) THEN StartFeed ELSE ArgumentsRejected
    /\ UNCHANGED <<tool, args, control, fetchCount, teamId, season, division, eastOfPacific, parserVars,
                   feedVars, browserVars, gotoCount, cand, discoverVars, selectVars,
                   tableVars, found>>

\* getTeamScheduleTool.handler up to the await
GetTeamSchedule ==
    /\ pc = "request"
    /\ tool = "get_team_schedule"
    /\ IF GetTeamScheduleSchema(args) THEN StartFeed ELSE ArgumentsRejected
    /\ UNCHANGED <<tool, args, control, fetchCount, teamId, season, division, eastOfPacific, parserVars,
                   feedVars, browserVars, gotoCount, cand, discoverVars, selectVars,
                   tableVars, found>>

\* the handlers of the two feed tools from the await on: the error thrown
\* by fetchScheduleFromICal is caught, no game is answered in words, games
\* as JSON
FeedToolReturn ==
    /\ tool \in {"get_division_schedule", "get_team_schedule"}
    /\ op = "feed"
    /\ pc \in {"returned", "thrown"}
    /\ IF completion = "throw"
       THEN HandlerCatch(err)
       ELSE /\ payload' = << TextPayload(IF Len(games) = 0 THEN "No games found" ELSE "games") >>
            /\ pc' = "responded"
            /\ UNCHANGED escaped
    /\ UNCHANGED <<tool, args, control, fetchCount, inputVars, parserVars, feedVars, browserVars, gotoCount,
                   cand, discoverVars, selectVars, tableVars, found, completion, err>>

\* listScheduleOptionsTool.handler up to the await: a missing season or
\* division is handed to getScheduleOptions as undefined
ListScheduleOptions ==
    /\ pc = "request"
    /\ tool = "list_schedule_options"
    /\ IF ListScheduleOptionsArgsSchema(args)
       THEN /\ op' = "discover"
            /\ pc' = "launch"
            /\ seasonLabel' = args.first.text
            /\ divisionLabel' = args.second.text
            /\ UNCHANGED <<completion, err, payload, escaped>>
       ELSE ArgumentsRejected
    /\ UNCHANGED <<tool, args, control, fetchCount, teamId, season, division, eastOfPacific, parserVars,
                   feedVars, browserVars, gotoCount, cand, discoverVars, selectVars,
                   tableVars, found>>

\* listScheduleOptionsTool.handler from the await on
ListScheduleOptionsReturn ==
    /\ tool = "list_schedule_options"
    /\ op = "discover"
    /\ pc \in {"returned", "thrown"}
    /\ IF completion = "throw"
       THEN HandlerCatch(err)
       ELSE /\ payload' = << TextPayload("options") >>
            /\ pc' = "responded"
            /\ UNCHANGED escaped
    /\ UNCHANGED <<tool, args, control, fetchCount, inputVars, parserVars, feedVars, browserVars, gotoCount,
                   cand, discoverVars, selectVars, tableVars, found, completion, err>>

(***************************************************************************)
(* Specifications.                                                         *)
(***************************************************************************)
\* no tool is called: the operation is called directly
NoToolCall == tool = "" /\ args = NoArguments

\* no table was extracted or parsed yet
NoTable == tables = <<>> /\ tableData = <<>> /\ rowIdx = 0 /\ games = <<>>

\* nothing has run yet, the table apart
NothingRun ==
    /\ launches = 0 /\ closeCalls = 0 /\ gotoCount = 0 /\ pagesOpen = 0
    /\ proc = "none" /\ procKilled = FALSE /\ closeOutcome = "none"
    /\ cand = 0
    /\ divisions = <<>> /\ teams = <<>>
    /\ seasonValue = "" /\ divisionValue = ""
    /\ selectTried = [r \in Roles |-> FALSE]
    /\ selectDone = [r \in Roles |-> FALSE]
    /\ completion = "none" /\ err = "" /\ result = <<>>
    /\ found = 0
    /\ returned = <<>>
    /\ response = <<>> /\ feedParsed = FALSE /\ events = <<>> /\ eventIdx = 0
    /\ payload = <<>> /\ escaped = FALSE
    /\ control = <<>> /\ fetchCount = 0

\* nothing has run yet
Idle == NothingRun /\ NoTable

\* no table is parsed in another column order, no team cell is cleaned
NoTableArguments == order = <<>> /\ cell = ""

\* the arguments of the parsers and of teamNamesMatch, when they are not called
NoParserArguments ==
    timeStr = "" /\ dateStr = "" /\ input = "" /\ canonical = "" /\ NoTableArguments

\* the state in which an operation starts, its arguments apart
Fresh ==
    /\ Idle
    /\ NoParserArguments
    /\ season = "2025-26" /\ division = "12u AA"

\* a call of getScheduleOptions(seasonLabel, divisionLabel), or of
\* scrapeSchedule(seasonId, divisionId, teamId, season, division, scope)
Init ==
    /\ Fresh
    /\ NoToolCall
    /\ pc = "launch"
    /\ seasons = <<>>
    /\ \/ /\ op = "discover"
          /\ seasonLabel \in SeasonLabels
          /\ divisionLabel \in DivisionLabels
          /\ teamId = ""
          /\ eastOfPacific = FALSE
       \/ /\ op = "scrape"
          /\ seasonLabel = "" /\ divisionLabel = ""
          /\ teamId \in {"", "586889"}
          /\ eastOfPacific \in BOOLEAN

Next ==
    \/ LaunchBrowser
    \/ CreatePage
    \/ NavigateToSchedulePage
    \/ GetSeasonOptions
    \/ ResolveSeason
    \/ SelectSeason
    \/ GetDivisionOptions
    \/ ResolveDivision
    \/ SelectDivision
    \/ GetTeamOptions
    \/ BuildResult
    \/ SelectTeam
    \/ SwitchScope
    \/ ExtractScheduleTable
    \/ ParseRows
    \/ CloseBrowserPages
    \/ CloseBrowserClosePages
    \/ CloseBrowserClose
    \/ CloseBrowserKill

Spec == Init /\ [][Next]_vars

\* extractGames(page, division, season) on a loaded page
InitTable ==
    /\ Fresh
    /\ NoToolCall
    /\ op = "extract"
    /\ pc = "extract"
    /\ seasons = <<>>
    /\ seasonLabel = "" /\ divisionLabel = "" /\ teamId = ""
    /\ eastOfPacific \in BOOLEAN

NextTable == ExtractScheduleTable \/ ParseRows

SpecTable == InitTable /\ [][NextTable]_vars

\* findOptionByLabel(options, label)
InitFind ==
    /\ Fresh
    /\ NoToolCall
    /\ op = "find"
    /\ pc = "find"
    /\ seasons \in SeqsUpTo({ SelectOption("v", l, FALSE) : l \in OptionLabels }, MaxFindOptions)
    /\ seasonLabel \in Texts(Alphabet, MaxLabelLen)
    /\ divisionLabel = "" /\ teamId = ""
    /\ eastOfPacific = FALSE

NextFind == FindOption

SpecFind == InitFind /\ [][NextFind]_vars

\* no argument of getScheduleOptions or scrapeSchedule is given
NoLabels == seasons = <<>> /\ seasonLabel = "" /\ divisionLabel = "" /\ teamId = ""

\* fetchScheduleFromICal(options)
InitFeed ==
    /\ Fresh
    /\ NoToolCall
    /\ NoLabels
    /\ op = "feed"
    /\ pc = "fetch"
    /\ eastOfPacific = FALSE

NextFeed == FetchFeed \/ ReadFeed \/ ConvertEvent

SpecFeed == InitFeed /\ [][NextFeed]_vars

\* parsePGHLTime(timeStr)
InitTime ==
    /\ Idle
    /\ NoToolCall
    /\ NoLabels
    /\ op = "parseTime"
    /\ pc = "parseTime"
    /\ timeStr \in TimeTexts
    /\ dateStr = "" /\ input = "" /\ canonical = ""
    /\ NoTableArguments
    /\ season = "2025-26" /\ division = "12u AA"
    /\ eastOfPacific = FALSE

NextTime == ParseTime

SpecTime == InitTime /\ [][NextTime]_vars

\* parsePGHLDate(dateStr, season), in a process at or east of Pacific time
InitDate ==
    /\ Idle
    /\ NoToolCall
    /\ NoLabels
    /\ op = "parseDate"
    /\ pc = "parseDate"
    /\ dateStr \in DateTexts
    /\ season \in SeasonArguments
    /\ eastOfPacific \in BOOLEAN
    /\ timeStr = "" /\ input = "" /\ canonical = ""
    /\ NoTableArguments
    /\ division = "12u AA"

NextDate == ParseDate

SpecDate == InitDate /\ [][NextDate]_vars

\* teamNamesMatch(input, canonical)
InitNames ==
    /\ Idle
    /\ NoToolCall
    /\ NoLabels
    /\ op = "matchNames"
    /\ pc = "matchNames"
    /\ input \in InputNames
    /\ canonical \in CanonicalNames
    /\ timeStr = "" /\ dateStr = ""
    /\ NoTableArguments
    /\ season = "2025-26" /\ division = "12u AA"
    /\ eastOfPacific = FALSE

NextNames == MatchNames

SpecNames == InitNames /\ [][NextNames]_vars

\* a tool call: the request reaches the CallTool handler of server.ts or,
\* through the HTTP route, the handler of the tool named
InitTools ==
    /\ Fresh
    /\ NoLabels
    /\ op = "handler"
    /\ pc = "request"
    /\ eastOfPacific = FALSE
    /\ tool \in ToolNames
    /\ args \in ToolArguments

NextTools ==
    \/ CallToolRequest
    \/ GetDivisionSchedule
    \/ GetTeamSchedule
    \/ FeedToolReturn
    \/ ListScheduleOptions
    \/ ListScheduleOptionsReturn
    \/ FetchFeed
    \/ ReadFeed
    \/ ConvertEvent
    \/ LaunchBrowser
    \/ CreatePage
    \/ NavigateToSchedulePage
    \/ GetSeasonOptions
    \/ ResolveSeason
    \/ SelectSeason
    \/ GetDivisionOptions
    \/ ResolveDivision
    \/ SelectDivision
    \/ GetTeamOptions
    \/ BuildResult
    \/ CloseBrowserPages
    \/ CloseBrowserClosePages
    \/ CloseBrowserClose
    \/ CloseBrowserKill

\* a call of getScheduleOptions, of scrapeSchedule or of
\* fetchScheduleFromICal
InitCalls == Init \/ InitFeed

NextCalls == Next \/ NextFeed

SpecCalls == InitCalls /\ [][NextCalls]_vars

\* the positions of a call
Positions ==
    {"launch", "createPage", "navigate", "seasonOptions", "resolveSeason", "selectSeason",
     "divisionOptions", "resolveDivision", "selectDivision", "teamOptions", "buildResult",
     "selectTeam", "scope", "extract", "parseRows", "finally", "closePages",
     "browserClose", "forceKill", "fetch", "readFeed", "events", "awaiting", "returned",
     "thrown"}

\* the call has neither ended nor come to a wait that never settles: one of
\* its steps can be taken
Running == pc \notin {"awaiting", "returned", "thrown"}

\* a running call leaves the position it is at
Proceed == Running /\ pc' \in Positions

\* the calls under the scheduling of the event loop: a continuation whose
\* promise has settled, or whose timer has fired, is run, so a running call
\* does not stay at one position for ever (the candidate, row and event
\* loops are bounded)
SpecLive == InitCalls /\ [][NextCalls]_vars /\ WF_pc(Proceed)

SpecTools == InitTools /\ [][NextTools]_vars

\* parseScheduleTable(tableData, division, season) on a table and on the
\* same table with its columns in another order
InitColumns ==
    /\ NothingRun
    /\ tables = <<>> /\ rowIdx = 0 /\ games = <<>>
    /\ NoToolCall
    /\ NoLabels
    /\ op = "parseTables"
    /\ pc = "parseTables"
    /\ \E table \in ColumnTables :
         /\ tableData = table
         /\ order \in ColumnOrders(Len(table[1]))
    /\ timeStr = "" /\ dateStr = "" /\ input = "" /\ canonical = "" /\ cell = ""
    /\ season = "2025-26" /\ division = "12u AA"
    /\ eastOfPacific = FALSE

NextColumns == ParseScheduleTables

SpecColumns == InitColumns /\ [][NextColumns]_vars

\* a team cell of the page, cleaned at extraction and at parsing
InitClean ==
    /\ Idle
    /\ NoToolCall
    /\ NoLabels
    /\ op = "cleanCell"
    /\ pc = "cleanCell"
    /\ cell \in TeamCells
    /\ timeStr = "" /\ dateStr = "" /\ input = "" /\ canonical = "" /\ order = <<>>
    /\ season = "2025-26" /\ division = "12u AA"
    /\ eastOfPacific = FALSE

NextClean == CleanCell

SpecClean == InitClean /\ [][NextClean]_vars

\* getSeasonId(season, division) followed by getDivisionId(division, seasonId)
InitLookup ==
    /\ Idle
    /\ NoToolCall
    /\ NoLabels
    /\ NoParserArguments
    /\ op = "lookup"
    /\ pc = "getSeasonId"
    /\ season \in SeasonArguments
    /\ division \in DivisionArguments
    /\ eastOfPacific = FALSE

NextLookup == GetSeasonId \/ GetDivisionId

SpecLookup == InitLookup /\ [][NextLookup]_vars

(***************************************************************************)
(* Properties.                                                             *)
(***************************************************************************)
\* the operation has returned or thrown to its caller
Done == pc \in {"returned", "thrown"}

\* closeBrowser is about to run or is running, its wait for page.close()
\* included
Releasing ==
    \/ pc \in {"finally", "closePages", "browserClose", "forceKill"}
    \/ (pc = "awaiting" /\ op \in {"discover", "scrape"})

SeasonNotFound == "ScrapingError: season dropdown (tried multiple selectors)"

TableErrors == {"Could not find schedule table on page", "Schedule table format not recognized"}

\* some option's label contains the label given, both in lower case and the
\* label given trimmed
HasLabelWith(options, key) ==
    \E i \in 1..Len(options) : Includes(ToLowerCase(options[i].label), key)

Resolvable(options, label) == HasLabelWith(options, Trim(ToLowerCase(label)))

\* C1: in every execution of getScheduleOptions and scrapeSchedule that
\* acquired the browser session, closeBrowser is called on it exactly once
\* before the operation returns or throws: never more than once, never
\* without a session, and once by the time the operation is over, whatever
\* way its try block ended.
C1_ReleasedExactlyOnce ==
    op \in {"discover", "scrape"} =>
        /\ closeCalls <= launches
        /\ launches <= 1
        /\ (Done => closeCalls = launches)
        /\ (~Done /\ ~Releasing => closeCalls = 0)

\* a scrapeSchedule that threw from table parsing and released its session
C1_Witness ==
    /\ op = "scrape"
    /\ pc = "thrown"
    /\ err = "Schedule table format not recognized"
    /\ launches = 1
    /\ closeCalls = 1

\* C2: one discover call acquires one browser session and calls page.goto
\* once, however many levels it resolves: the page is loaded once before the
\* season options are read and never again.
C2_OneSessionOneLoad ==
    op = "discover" =>
        /\ launches <= 1
        /\ gotoCount <= 1
        /\ (pc \in {"seasonOptions", "resolveSeason", "selectSeason", "divisionOptions",
                    "resolveDivision", "selectDivision", "teamOptions", "buildResult",
                    "returned"}
               => launches = 1 /\ gotoCount = 1)

\* a discover that resolved both levels and returned teams
C2_Witness ==
    /\ op = "discover"
    /\ pc = "returned"
    /\ seasonValue # ""
    /\ divisionValue # ""
    /\ Len(result[1].teams) > 0
    /\ gotoCount = 1

\* C3: once closeBrowser has finished, the browser process it was called on
\* has exited or was killed: a graceful close that failed or timed out is
\* followed by the kill of the process.
C3_NoProcessLeftRunning ==
    Done /\ closeCalls > 0 => proc \in {"closed", "killed"}

\* C4: every ScheduleOptions that discover returns has a non-empty seasons
\* list; its divisions are non-empty only if a season label was given and
\* resolved; its teams are non-empty only if a season label and a division
\* label were both given and resolved.
C4_ProgressivePopulation ==
    op = "discover" /\ pc = "returned" =>
        /\ Len(result) = 1
        /\ Len(result[1].seasons) > 0
        /\ (Len(result[1].divisions) > 0 =>
               seasonLabel # "" /\ Resolvable(result[1].seasons, seasonLabel))
        /\ (Len(result[1].teams) > 0 =>
               /\ seasonLabel # "" /\ Resolvable(result[1].seasons, seasonLabel)
               /\ divisionLabel # "" /\ Resolvable(result[1].divisions, divisionLabel))

\* a discover given a division label but no season label
C4_Witness ==
    /\ op = "discover"
    /\ pc = "returned"
    /\ seasonLabel = ""
    /\ divisionLabel # ""
    /\ Len(result[1].seasons) > 1
    /\ result[1].divisions = <<>>
    /\ result[1].teams = <<>>

\* the option the rule "equal, else containing" picks for a key, 0 for none
FirstEqualElseContaining(options, key, at) ==
    LET Equal(i) == ToLowerCase(options[i].label) = key
        Contains(i) == Includes(ToLowerCase(options[i].label), key)
        range == 1..Len(options)
    IN  /\ (\E i \in range : Equal(i)) =>
               at \in range /\ Equal(at) /\ \A j \in 1..(at - 1) : ~Equal(j)
        /\ (~(\E i \in range : Equal(i)) /\ \E i \in range : Contains(i)) =>
               at \in range /\ Contains(at) /\ \A j \in 1..(at - 1) : ~Contains(j)
        /\ (~\E i \in range : Contains(i)) => at = 0

\* C5 as stated: findOptionByLabel returns the first option whose label
\* equals the label case-insensitively, else the first whose label contains
\* it case-insensitively, else none.
C5_ExactThenSubstring ==
    pc = "found" => FirstEqualElseContaining(seasons, ToLowerCase(seasonLabel), found)

\* C5 amended: the same rule, for the label stripped of its leading and
\* trailing whitespace.
C5_ExactThenSubstringTrimmed ==
    pc = "found" => FirstEqualElseContaining(seasons, Trim(ToLowerCase(seasonLabel)), found)

\* the second option equals a label given with surrounding whitespace, and
\* the first one merely contains it
C5_Witness ==
    /\ pc = "found"
    /\ found = 2
    /\ seasonLabel # Trim(seasonLabel)
    /\ Trim(seasonLabel) # ""
    /\ Includes(ToLowerCase(seasons[1].label), Trim(ToLowerCase(seasonLabel)))
    /\ ToLowerCase(seasons[1].label) # Trim(ToLowerCase(seasonLabel))

\* C6: when the season label matches no option, discover leaves its try
\* block by a return and returns normally
\* with the full season list and empty divisions and teams, having selected
\* nothing on the page; when the division label matches no option, it
\* returns normally with the seasons, the divisions and empty teams, having
\* selected no division.
C6_UnresolvedLabel ==
    op = "discover" /\ (pc = "finally" \/ Done) =>
        /\ (seasons # <<>> /\ seasonLabel # "" /\ ~Resolvable(seasons, seasonLabel) =>
               /\ completion = "return"
               /\ result = <<ScheduleOptions(seasons, <<>>, <<>>)>>
               /\ \A role \in Roles : ~selectTried[role])
        /\ (seasonValue # "" /\ divisionLabel # ""
                /\ ~Resolvable(divisions, divisionLabel) =>
               /\ completion = "return"
               /\ result = <<ScheduleOptions(seasons, divisions, <<>>)>>
               /\ ~selectTried["division"]
               /\ ~selectTried["team"])

\* a discover whose division label matched none of the divisions listed
C6_Witness ==
    /\ op = "discover"
    /\ pc = "returned"
    /\ seasonValue # ""
    /\ Len(divisions) > 0
    /\ divisionLabel # ""
    /\ ~Resolvable(divisions, divisionLabel)
    /\ result[1].teams = <<>>

\* at the end of a call: every candidate of a control failed during it (the
\* option lookup of the role found no non-empty list, or the selection on it
\* never succeeded)
ControlFailed(role) ==
    \/ selectTried[role] /\ ~selectDone[role]
    \/ role = "season" /\ err = SeasonNotFound
    \/ role = "division" /\ seasonValue # "" /\ divisions = <<>>
    \/ role = "team" /\ divisionValue # "" /\ teams = <<>>

\* C7 as stated: for each role, when every candidate of the role failed the
\* call aborts with an error; it never returns a result.
C7_ControlNotFoundAborts ==
    \A role \in Roles : Done /\ ControlFailed(role) => completion = "throw" /\ result = <<>>

\* C7 amended: only the option lookup of the season control raises (a
\* ScrapingError naming the season dropdown) and aborts the call, so that
\* discover never returns without season options; when the option lookup of
\* the division or of the team control fails on every candidate, or when
\* every candidate selection fails, nothing is raised: discover returns
\* normally and scrapeSchedule goes on to the table.
C7_OnlySeasonLookupAborts ==
    /\ (err = SeasonNotFound => completion = "throw" /\ result = <<>>)
    /\ (op = "discover" /\ pc = "returned" => Len(result[1].seasons) > 0)
    /\ (op = "discover" /\ Done /\ seasonValue # "" => completion = "return")
    /\ (op = "scrape" /\ Done /\ ControlFailed("team") =>
           completion = "return" \/ err \in TableErrors)

\* a discover that returned although the season selection and the division
\* lookup failed on every candidate
C7_Witness ==
    /\ op = "discover"
    /\ pc = "returned"
    /\ ControlFailed("season")
    /\ ControlFailed("division")
    /\ Len(result[1].seasons) > 0

\* C8: extractGames throws whenever no table of the page has a header that
\* mentions a date column and a "home" or a "team" column; it never returns
\* a game list then.
C8_TableNotFound ==
    op = "extract" /\ Done /\ (\A i \in 1..Len(tables) : ~IsScheduleHeader(tables[i].head)) =>
        completion = "throw"

\* the game of a row that parsed, nothing for any other row
GameOf(outcome) == IF outcome.kind = "game" THEN outcome.games ELSE <<>>

\* the games of the rows that parse, in the rows' order
RECURSIVE GamesOf(_, _, _, _, _)
GamesOf(rows, cols, div, seasonText, tzEast) ==
    IF rows = <<>> THEN <<>>
    ELSE GameOf(ParseRow(Head(rows), cols, div, seasonText, tzEast))
             \o GamesOf(Tail(rows), cols, div, seasonText, tzEast)

\* C9: for a table whose required columns are recognized, table parsing
\* never throws and returns exactly the games of the body rows that parse,
\* in the rows' order, whatever rows fail before or after them.
C9_FailedRowsSkipped ==
    op = "extract" /\ TableShape(tableData) = "rows" =>
        /\ completion # "throw"
        /\ (pc = "returned" =>
               games = GamesOf(Tail(tableData), Columns(tableData), division, season,
                               eastOfPacific))

\* a table whose first row fails to parse and whose second row is emitted
C9_Witness ==
    /\ op = "extract"
    /\ pc = "returned"
    /\ Len(tableData) = 3
    /\ ParseRow(tableData[2], Columns(tableData), division, season, eastOfPacific).kind
           = "failed"
    /\ ParseRow(tableData[3], Columns(tableData), division, season, eastOfPacific).kind
           = "game"
    /\ Len(games) = 1

\* C10: every Game that table extraction emits has a non-empty date, time,
\* home, away, venue and division.
C10_RequiredFieldsNonEmpty ==
    \A i \in 1..Len(games) :
        /\ games[i].date # "" /\ games[i].time # ""
        /\ games[i].home # "" /\ games[i].away # ""
        /\ games[i].venue # "" /\ games[i].division # ""

\* "HH:MM" with the hour in 00..23 and the minute in 00..59
IsNormalizedTime(text) ==
    /\ Len(text) = 5
    /\ Char(text, 3) = ":"
    /\ AllDigits(Slice(text, 1, 2)) /\ AllDigits(Slice(text, 4, 5))
    /\ DigitsValue(Slice(text, 1, 2)) <= 23
    /\ DigitsValue(Slice(text, 4, 5)) <= 59

\* C11: the time of every Game, parsed from a table or converted from a
\* feed event, is empty or a zero-padded 24-hour HH:MM text with the hour in
\* 00..23 and the minute in 00..59.
C11_TimeNormalized ==
    \A i \in 1..Len(games) : games[i].time = "" \/ IsNormalizedTime(games[i].time)

HasDelimiter(summary) == Includes(summary, " @ ") \/ Includes(summary, " vs ")

\* the events of the payload whose summary holds a delimiter
EventsWithDelimiter ==
    { i \in 1..Len(events) : events[i].type = "VEVENT" /\ HasDelimiter(events[i].summary) }

\* C12: every Game of the feed has a non-empty date, home and away, and an
\* event whose summary is empty or holds neither " @ " nor " vs " is skipped:
\* no more games are returned than there are events with a delimiter.
C12_FeedGamesComplete ==
    op = "feed" =>
        /\ \A i \in 1..Len(games) :
               games[i].date # "" /\ games[i].home # "" /\ games[i].away # ""
        /\ (pc = "returned" => Len(games) <= Cardinality(EventsWithDelimiter))

\* fetchScheduleFromICal returned for a payload of one event that has a
\* start and this summary
FedOne(summary) ==
    /\ op = "feed"
    /\ pc = "returned"
    /\ Len(events) = 1
    /\ events[1].type = "VEVENT"
    /\ events[1].start.valid
    /\ events[1].summary = summary

\* the one game returned has these teams
OneGameOf(away, home, gameType) ==
    /\ Len(games) = 1
    /\ games[1].away = away /\ games[1].home = home /\ games[1].gameType = gameType

\* the number of positions of s at which t occurs
Occurrences(s, t) == Cardinality({ at \in 1..Len(s) : OccursAt(s, t, at) })

\* C13 as stated: for any two team names A and B that hold neither
\* delimiter, the summary "A @ B" gives away = A, home = B, gameType "away",
\* and "A vs B" gives away = A, home = B, gameType "home".
C13_DelimiterDecides ==
    \A a \in TeamNames, b \in TeamNames :
        ~HasDelimiter(a) /\ ~HasDelimiter(b) =>
            /\ (FedOne(a \o " @ " \o b) => OneGameOf(a, b, "away"))
            /\ (FedOne(a \o " vs " \o b) => OneGameOf(a, b, "home"))

\* C13, amended: the first delimiter of the summary decides, " @ " being
\* looked for before " vs ", and both names are trimmed: when "A @ B" holds
\* " @ " once it gives away = trim(A), home = trim(B), gameType "away"; when
\* "A vs B" holds no " @ " and " vs " once it gives away = trim(A),
\* home = trim(B), gameType "home".
C13_FirstDelimiterDecides ==
    \A a \in TeamNames, b \in TeamNames :
        /\ (FedOne(a \o " @ " \o b) /\ Occurrences(a \o " @ " \o b, " @ ") = 1
               => OneGameOf(Trim(a), Trim(b), "away"))
        /\ ((/\ FedOne(a \o " vs " \o b)
             /\ ~Includes(a \o " vs " \o b, " @ ")
             /\ Occurrences(a \o " vs " \o b, " vs ") = 1)
               => OneGameOf(Trim(a), Trim(b), "home"))

\* the feed's one event is "Jr Ducks vs  Jets": the home team is returned
\* trimmed and the game tagged "home"
C13_Witness ==
    /\ FedOne("Jr Ducks vs  Jets")
    /\ OneGameOf("Jr Ducks", "Jets", "home")

\* a YYYY-MM-DD text as a number that orders dates
DateNumber(text) ==
    DigitsValue(Slice(text, 1, 4)) * 10000 + DigitsValue(Slice(text, 6, 7)) * 100
        + DigitsValue(Slice(text, 9, 10))

\* C14: the list fetchScheduleFromICal returns is in ascending order of
\* date: no entry is dated after the entry that follows it, in whatever
\* order the payload lists its events.
C14_SortedByDate ==
    op = "feed" /\ pc = "returned" =>
        \A i \in 1..(Len(games) - 1) :
            DateNumber(games[i].date) <= DateNumber(games[i + 1].date)

\* the payload lists the game of September before the game of March, and
\* the game of March is returned first
C14_Witness ==
    /\ op = "feed"
    /\ pc = "returned"
    /\ Len(events) = 2
    /\ events[1].start = SeptemberEvening
    /\ Len(games) = 2
    /\ games[1].date = "2025-03-09"
    /\ games[2].date = "2025-09-13"

\* C15: once the endpoint has answered with a status that is not a success,
\* fetchScheduleFromICal has thrown the HTTP error to its caller: the body
\* was not read or parsed, and no list of games, partial or empty, is
\* returned.
C15_FeedUnavailable ==
    op = "feed" /\ Len(response) = 1 /\ response[1].status \notin 200..299 =>
        /\ pc = "thrown"
        /\ completion = "throw"
        /\ err = HttpError(response[1].status)
        /\ ~feedParsed
        /\ events = <<>>
        /\ games = <<>>

\* the endpoint answered 404 and the call has thrown
C15_Witness ==
    /\ op = "feed"
    /\ response = << Response(404) >>
    /\ pc = "thrown"

\* C16: parsePGHLTime returns a text that is already "HH:MM" (hour 00..23,
\* minute 00..59) as it is, and parsing a value it returned returns that
\* value again.
C16_NormalizedUnchanged ==
    op = "parseTime" /\ Done =>
        /\ (IsNormalizedTime(timeStr) => returned = << Ok(timeStr) >>)
        /\ (returned[1].ok => parsePGHLTime(returned[1].value) = returned[1])

\* the hour of the 24-hour clock for an hour 1..12 and its marker
ConvertedHour(h, marker) ==
    IF ToUpperCase(marker) = "AM" THEN (IF h = 12 THEN 0 ELSE h)
    ELSE IF h = 12 THEN 12 ELSE h + 12

\* C17: for every hour 1..12, minute and AM or PM marker, written with or
\* without a space before the marker and with or without a zone after it,
\* parsePGHLTime returns "HH:MM" with the minute of the text and the hour
\* converted: 12 AM is 00, 12 PM is 12, other PM hours 12 more, other AM
\* hours the same.
C17_TwelveHourConverted ==
    op = "parseTime" /\ Done =>
        \A h \in 1..12, mm \in Minutes, sep \in {"", " "}, marker \in {"AM", "PM", "pm"},
           zone \in {"", " PDT", " PST"} :
            timeStr = TwelveHourText(h, mm, sep, marker, zone) =>
                returned = << Ok(NormalizedText(ConvertedHour(h, marker), mm)) >>

\* a season text "YYYY-YY" and its start year
IsSeasonText(text) ==
    /\ Len(text) = 7
    /\ AllDigits(Slice(text, 1, 4)) /\ Char(text, 5) = "-" /\ AllDigits(Slice(text, 6, 7))

StartYear(text) == DigitsValue(Slice(text, 1, 4))

\* "YYYY-MM-DD"
IsoText(y, m, d) ==
    PadStart(IntToString(y), 4) \o "-" \o PadStart(IntToString(m), 2) \o "-"
        \o PadStart(IntToString(d), 2)

\* C18: for every month and day that is a date of the season's start year,
\* written "<wd> <mon> <day>" with the weekday of that date, parsePGHLDate
\* returns "<startYear>-<MM>-<DD>", month and day zero-padded.
C18_WeekdayMonthDay ==
    op = "parseDate" /\ Done /\ IsSeasonText(season) =>
        \A m \in 1..12, d \in SampleDays, padded \in BOOLEAN :
            /\ d <= DaysInMonth(StartYear(season), m)
            /\ dateStr = WeekdayMonthDayText(StartYear(season), m, d, padded)
            => returned = << Ok(IsoText(StartYear(season), m, d)) >>

\* text is YYYY-MM-DD, names a day that exists, in year first or the next
IsDateOfSeason(text, first) ==
    /\ IsIsoShape(text)
    /\ DigitsValue(Slice(text, 1, 4)) \in {first, first + 1}
    /\ DigitsValue(Slice(text, 6, 7)) \in 1..12
    /\ DigitsValue(Slice(text, 9, 10)) >= 1
    /\ DigitsValue(Slice(text, 9, 10))
           <= DaysInMonth(DigitsValue(Slice(text, 1, 4)), DigitsValue(Slice(text, 6, 7)))

\* C19: whatever parsePGHLDate returns is a YYYY-MM-DD text that names a
\* valid calendar date of the season's start year or end year; for any other
\* text it throws.
C19_ValidDateInSeason ==
    op = "parseDate" /\ pc = "returned" /\ IsSeasonText(season) =>
        IsDateOfSeason(returned[1].value, StartYear(season))

\* lower-case letters, digits and "_" in words that single spaces separate
IsNormalName(text) ==
    /\ \A i \in 1..Len(text) :
           CharIn(Char(text, i), LowerLetters) \/ IsDigit(Char(text, i))
               \/ Char(text, i) \in {"_", " "}
    /\ ~Includes(text, "  ")
    /\ text = Trim(text)

\* C20: teamNamesMatch(input, canonical) is true exactly when the normalized
\* canonical name contains the normalized input (an equal one included), the
\* normalized names being in lower case, without punctuation, their words
\* separated by single spaces: "storm" matches "Las Vegas Storm 12u AA",
\* "jets" does not, and "Las Vegas Storm 12u AA" does not match "storm".
C20_ContainsNormalized ==
    op = "matchNames" /\ pc = "returned" =>
        /\ returned[1] = Includes(normalizeTeamName(canonical), normalizeTeamName(input))
        /\ IsNormalName(normalizeTeamName(input))
        /\ IsNormalName(normalizeTeamName(canonical))
        /\ (input = "storm" /\ canonical = "Las Vegas Storm 12u AA" => returned[1])
        /\ (input = "jets" /\ canonical = "Las Vegas Storm 12u AA" => ~returned[1])
        /\ (input = "Las Vegas Storm 12u AA" /\ canonical = "storm" => ~returned[1])

\* "jr ducks" is found in "Jr. Ducks 12u AA": a partial match past the
\* punctuation and the capitals
C20_Witness ==
    /\ op = "matchNames"
    /\ pc = "returned"
    /\ input = "jr ducks"
    /\ canonical = "Jr. Ducks 12u AA"
    /\ returned = << TRUE >>

\* the handler has answered its caller, or an error has reached the caller
Responded == pc = "responded"

\* C21: no tool handler throws to its caller: whatever the arguments and
\* whatever failed (validation, discovery, the feed fetch, an unknown tool
\* name), the call ends with a payload, and when the call failed the
\* payload has isError set and the error's message as its text.
C21_HandlersNeverThrow ==
    tool # "" =>
        /\ ~escaped
        /\ Responded =>
              /\ Len(payload) = 1
              /\ payload[1].isError = (completion = "throw")
              /\ completion = "throw" => payload[1].text = "Error: " \o err

\* list_schedule_options failed after the browser was launched, and the
\* session was released before the error payload was returned
C21_Witness ==
    /\ Responded
    /\ tool = "list_schedule_options"
    /\ op = "discover"
    /\ completion = "throw"
    /\ closeCalls = 1
    /\ payload = << ErrorPayload(err) >>

\* the body rows that are not the header row again
OtherRows(rows, head) == SelectSeq(rows, LAMBDA row : row # head)

\* C22: a body row that repeats the table's header row produces no Game,
\* whatever the header texts are, and the other rows are emitted as usual:
\* the games returned are those of the table without such rows.
C22_HeaderRowsEmitNothing ==
    op = "extract" /\ TableShape(tableData) = "rows" /\ pc = "returned" =>
        games = GamesOf(OtherRows(Tail(tableData), tableData[1]), Columns(tableData),
                        division, season, eastOfPacific)

\* the header "Visitor", "Home Team", "Game Date", "Location" comes again
\* as the first body row, and the row after it is emitted
C22_Witness ==
    /\ op = "extract"
    /\ pc = "returned"
    /\ Len(tableData) = 3
    /\ tableData[1][3] = "Game Date"
    /\ tableData[2] = tableData[1]
    /\ Len(games) = 1

\* the <option> elements that are no placeholders: a value and a label
Selectable(raw) == SelectSeq(raw, LAMBDA o : o.value # "" /\ Trim(o.text) # "")

\* the options are those of the elements: their values and trimmed labels
ReadFrom(options, raw) ==
    /\ Len(options) = Len(raw)
    /\ \A i \in 1..Len(options) :
          options[i].value = raw[i].value /\ options[i].label = Trim(raw[i].text)

\* the candidate exists and yields an option that is no placeholder
Usable(c) == c.exists /\ Len(Selectable(c.options)) > 0

\* one step of a lookup at `position` over n candidates, `before` and
\* `after` the options of the role before and after the step: the candidate
\* at cand is tried; a usable one ends the lookup with its options, any
\* other is passed over for the next candidate, or ends the lookup without
\* options when it was the last
LookupStep(position, n, before, after) ==
    pc = position =>
        /\ cand \in 1..n
        /\ Len(control') = 1
        /\ IF Usable(control'[1])
           THEN /\ ReadFrom(after, Selectable(control'[1].options))
                /\ pc' # position
           ELSE \/ cand < n /\ cand' = cand + 1 /\ pc' = position /\ after = before
                \/ cand = n /\ pc' # position /\ after = <<>>

\* C23: a control lookup tries its candidate locators in list order, each
\* at most once, and returns the options of the first candidate that exists
\* and yields an option with a value and a label; a candidate with
\* placeholder options only is passed over, and no candidate is tried after
\* the one accepted.
C23_OrderedFallback ==
    [][/\ LookupStep("seasonOptions", Len(seasonSelectors), seasons, seasons')
       /\ LookupStep("divisionOptions", Len(divisionSelectors), divisions, divisions')
       /\ LookupStep("teamOptions", Len(teamSelectors), teams, teams')]_vars

\* the team lookup is at its third candidate after the second one held a
\* placeholder only
C23_Witness ==
    /\ pc = "teamOptions"
    /\ cand = 3
    /\ control = << Present(<< RawOption("", "All Teams", TRUE) >>) >>

\* C24: the navigation order Loaded, SeasonSelected, DivisionSelected is
\* respected: the division options are read only after a selectDropdownOption
\* call for the season has completed (value selected, settle delay, network
\* idle) on some candidate, and the team options only after one for the
\* division has completed.
C24_SelectedBeforeRead ==
    /\ pc = "divisionOptions" => selectDone["season"]
    /\ pc = "teamOptions" => selectDone["division"]

\* a table was located and its header lacks the date, the home or the
\* away column
LacksRequiredColumn ==
    Len(tableData) > 0 /\ ShapeOf(Columns(tableData)) = "unrecognized"

\* C25: whenever the table located has no "date", no "home" or no
\* "away"/"visitor" column, table parsing throws 'Schedule table format not
\* recognized' and emits no Game, also for a table located through a "team"
\* header and for a table with a header row and no body rows.
C25_MissingColumnIsFatal ==
    op = "extract" /\ Done /\ LacksRequiredColumn =>
        /\ completion = "throw"
        /\ err = "Schedule table format not recognized"
        /\ games = <<>>

\* C26: the column roles do not depend on the physical column order:
\* parsing the table with the same column order applied to its header and
\* to every body row gives the same games (or the same failure).
C26_ColumnOrderIrrelevant ==
    op = "parseTables" /\ Done =>
        /\ completion = "return" => returned = << Ok(games) >>
        /\ completion = "throw" => ~returned[1].ok

\* C27: a team cell made of a name N that ends in an age and skill token,
\* followed by a short code or by nothing, gives N as home or away after
\* the cleaning at extraction and cleanTeamName, and cleaning the result
\* once more changes nothing.
C27_CellCleanedToName ==
    op = "cleanCell" /\ Done =>
        /\ \A name \in TeamCellNames, token \in AgeSkillTokens, code \in ShortCodes :
              cell = TeamCell(name, token, code) => returned = << name \o " " \o token >>
        /\ CleanedCell(returned[1]) = returned[1]

\* the positions of the candidate loops, lookups and selections
LoopPositions ==
    {"seasonOptions", "divisionOptions", "teamOptions",
     "selectSeason", "selectDivision", "selectTeam"}

\* C28: nothing is retried within a call: one fetch per fetchScheduleFromICal
\* call and one page load per getScheduleOptions or scrapeSchedule call, a
\* failure of either ends the call, and a candidate loop that goes on goes
\* on with the next candidate.
C28_NothingRetried ==
    [][/\ fetchCount' <= 1
       /\ gotoCount' <= 1
       /\ (pc = "fetch" /\ completion' = "throw" => pc' = "thrown")
       /\ (pc = "navigate" /\ completion' = "throw" => pc' = "finally")
       /\ (pc \in LoopPositions /\ pc' = pc => cand' = cand + 1)]_vars

\* the one fetch of a call was rejected and the call has thrown
C28_Witness ==
    /\ op = "feed"
    /\ pc = "thrown"
    /\ fetchCount = 1
    /\ err = "TypeError: fetch failed"

\* C29: every call of getScheduleOptions, scrapeSchedule and
\* fetchScheduleFromICal eventually returns or throws, also when the
\* browser or the remote site never answers: every wait has a timeout.
C29_EveryCallEnds == <>Done

\* the entries of the two division tables
ListedDivisions == AA_DIVISIONS \o TIER1_DIVISIONS

\* C30: for every division name d listed in the division tables,
\* getSeasonId("2025-26", d) followed by getDivisionId(d, thatSeasonId)
\* succeeds and returns the id listed for d.
C30_LookupsAgree ==
    \A i \in 1..Len(ListedDivisions) :
        (/\ op = "lookup"
         /\ season = "2025-26"
         /\ division = ListedDivisions[i][1]
         /\ pc \in {"returned", "thrown"})
        => returned = << Ok(ListedDivisions[i][2]) >>

====
